---- MODULE Spec2Model ----
(***************************************************************************)
(* Model of the transaction submission engine (sendWithRetry,              *)
(* confirmTransactionWithPolling, the SDK's sendTransaction) and of the    *)
(* priority fee estimator (getDynamicPriorityFee) of openbook-v2-cli.      *)
(*                                                                         *)
(* Spec        : one call of sendWithRetry against a nondeterministic       *)
(*               network                                                   *)
(* SpecFee     : one call of getDynamicPriorityFee on bounded sample lists *)
(* SpecMarkets : one call of findAllMarkets on bounded signature logs      *)
(* SpecCmd     : one invocation of a command handler                       *)
(* SpecMonitor : one run of the marketData monitor                         *)
(* SpecDeposit : one call of the deposit command's own sendWithRetry       *)
(***************************************************************************)
EXTENDS Integers, Sequences, FiniteSets, TLC

\* ---------------------------------------------------------------- bounds
\* polling rounds that end "still pending" (they consume no retry budget in
\* the code, so the loop is unbounded without this cap)
MaxPending == 1
\* timer callbacks started by one run of the marketData monitor
MaxTicks == 4
\* how many broadcast transactions the network includes in one behaviour
MaxLanded == 2
\* length of the fee sample list returned by getRecentPrioritizationFees
MaxSamples == 3

\* transactions of the scanned log that carry inner instructions
MaxEventful == 2
\* getTransactions and getTokenAccountBalance requests that fail in one scan
MaxFailures == 3

\* ------------------------------------------------------ program constants
MAX_RETRIES == 10
BASE_PRIORITY_FEE == 100000
maxChecks == 10
\* utils/market.ts (its MAX_RETRIES is a different constant from setup.ts's)
MAX_SIGNATURES_PER_REQUEST == 200
BATCH_TX_SIZE == 5
MARKET_MAX_RETRIES == 3
\* commands/deposit.ts declares its own MAX_RETRIES
DEPOSIT_MAX_RETRIES == 10

\* initial priority fees handed to sendWithRetry (below the schedule, the
\* estimator's floor, and above the first schedule step)
InitialFees == {10000, 100000, 300000}

\* fee samples (prioritizationFee of one slot)
SampleValues == {0, 1, 99999, 100000, 100001, 250000}

baseRetrySteps ==
  <<250000, 500000, 1000000, 1500000, 2000000, 4000000, 8000000,
    16000000, 32000000>>

\* lengths of the signature log of the event authority
SigCounts == {0, 1, 6, 11, 200, 201}

\* kinds of transaction found in the log besides plain ones
TxKinds ==
  {"create", "createBare", "two", "other", "foreign", "badIndex", "garbled",
   "unknown", "nulltx", "garbledThenCreate"}

\* uiAmount answered by getTokenAccountBalance (0 also stands for null)
VaultAmounts == {0, 7}

\* baseVaultBalance / quoteVaultBalance: 'Unavailable'
Unavailable == -1
\* 'N/A' in a record's address field, null in a vault or index field
NA == 0
Null == -1

\* error messages
ExpiredMsg == "block height exceeded"
OnChainMsg == "Transaction failed with error: {InstructionError}"
RpcMsg == "rpc request failed"
RetriesMsg == "Transaction failed after multiple retries."

VARIABLES
  pc,                \* position inside sendWithRetry
  attempt,           \* let attempt
  signature,         \* let signature (0 = null)
  prioritizationFee, \* parameter, reassigned on escalation
  latestBlockhash,   \* let latestBlockhash of the current iteration (0 = none)
  txid,              \* signature const inside sendTransaction (0 = none)
  i,                 \* loop counter of confirmTransactionWithPolling
  caught,            \* message of the error caught by the catch clause
  result,            \* returned signature (0 = nothing returned)
  error,             \* message of the error the call rejected with
  instructions,      \* the caller's instruction list
  initialFee,        \* the fee the caller passed in
  net,               \* network: status of each broadcast transaction
  sent,              \* network: every transaction broadcast by the call
  bhLog,             \* network: values returned by getLatestBlockhash
  tip,               \* network: current blockhash of the chain
  nStatus,           \* number of getSignatureStatus requests
  nExpired,          \* number of expiry errors raised by confirmTransaction
  nPending,          \* number of polling rounds that ended unconfirmed
  confirmedSeen,     \* signatures a status query reported confirmed/finalized
  rechecked,         \* signature polled by the current catch clause (0 = none)
  pcF,               \* position inside getDynamicPriorityFee
  rpcFees,           \* what getRecentPrioritizationFees will answer
  rpcKind,           \* "ok", "empty" (null answer) or "error" (rejects)
  recentFees,        \* const recentFees
  feeResult,         \* value returned by getDynamicPriorityFee
  nFetch,            \* number of getRecentPrioritizationFees requests
  pcM,               \* position inside findAllMarkets
  nSigs,             \* chain: length of the event authority's signature log
  evKinds,           \* chain: kinds of the log's eventful transactions
  signatures,        \* let signatures: the first `signatures` log entries
  beforeSignature,   \* let beforeSignature (0 = undefined)
  iM,                \* let i of the batch loop
  attemptM,          \* let attempt of the batch retry loop
  marketsAll,        \* const marketsAll
  mIdx,              \* position of the vault loop in marketsAll
  side,              \* vault being fetched: "base" or "quote"
  attempts,          \* let attempts of getVaultBalance
  returned,          \* TRUE once findAllMarkets has returned marketsAll
  nPages,            \* number of getSignaturesForAddress requests
  pageFailed,        \* a getSignaturesForAddress request rejected
  skipped,           \* batch start indices whose three attempts all failed
  nBatchFail,        \* number of rejected getTransactions requests
  gaveUp,            \* <<market index, side>> whose three attempts failed
  nVaultFail,        \* number of rejected getTokenAccountBalance requests
  warned,            \* log positions named by 'Failed to decode event' warnings
  fetched,           \* uiAmount of every fulfilled getTokenAccountBalance request
  cmd,               \* the command the invocation runs
  argv,              \* its parsed command line
  chain,             \* what the chain holds for the accounts it names
  pcC,               \* position inside the command's handler
  branch,            \* closeOOA: the branch of the handler being run
  acctIdx,           \* closeOOA: position of the loop over openOrdersAccounts
  openOrdersAccount, \* const openOrdersAccount
  thrown,            \* the error being thrown
  rpcLog,            \* network requests made by the invocation
  built,             \* instructions built by the handler
  submitted,         \* transactions handed to the network, with their result
  exitCode,          \* process exit code (Null while running)
  logC,              \* lines logged at error level
  pcMon,             \* marketData: position of the handler
  monArgv,           \* marketData: the --bestbidask and --book flags
  timers,            \* marketData: intervals set by the handler
  inflight,          \* marketData: callbacks awaiting loadOrderBook, per timer
  nTicks,            \* marketData: callbacks started
  nTickFail,         \* marketData: callbacks whose loadOrderBook rejected
  logMon,            \* marketData: lines written by logger.error
  stderrMon,         \* marketData: lines written by the runtime itself
  procMon,           \* marketData: "running", "crashed", "killed", "ended"
  pcD,               \* deposit.ts sendWithRetry: position
  attemptD,          \* deposit.ts sendWithRetry: let attempt
  feeD,              \* deposit.ts sendWithRetry: parameter prioritizationFee
  initialFeeD,       \* deposit.ts sendWithRetry: the fee the caller passed
  sentD,             \* deposit.ts sendWithRetry: fee of every submission
  caughtD,           \* deposit.ts sendWithRetry: message of the caught error
  resultD,           \* deposit.ts sendWithRetry: returned signature (0 = none)
  errorD             \* deposit.ts sendWithRetry: message of the thrown error

sendVars ==
  <<pc, attempt, signature, prioritizationFee, latestBlockhash, txid, i,
    caught, result, error, instructions, initialFee, net, sent, bhLog, tip,
    nStatus, nExpired, nPending, confirmedSeen, rechecked>>

feeVars == <<pcF, rpcFees, rpcKind, recentFees, feeResult, nFetch>>

mktVars ==
  <<pcM, nSigs, evKinds, signatures, beforeSignature, iM, attemptM,
    marketsAll, mIdx, side, attempts, returned, nPages, pageFailed, skipped,
    nBatchFail, gaveUp, nVaultFail, warned, fetched>>

cmdVars ==
  <<cmd, argv, chain, pcC, branch, acctIdx, openOrdersAccount, thrown, rpcLog,
    built, submitted, exitCode, logC>>

monVars ==
  <<pcMon, monArgv, timers, inflight, nTicks, nTickFail, logMon, stderrMon,
    procMon>>

depVars ==
  <<pcD, attemptD, feeD, initialFeeD, sentD, caughtD, resultD, errorD>>

vars == <<sendVars, feeVars, mktVars, cmdVars, monVars, depVars>>

\* ------------------------------------------------------------- helpers
Landed == {s \in 1..Len(net) : net[s] = "confirmed"}

\* error.message.includes('block height exceeded')
IsExpiredError_Any(msg) == TRUE
IsExpiredError(msg) == msg = ExpiredMsg

\* confirmationStatus === 'confirmed' || confirmationStatus === 'finalized'
IsConfirmedStatus_Processed(st) == st \in {"processed", "confirmed", "finalized"}
IsConfirmedStatus(st) == st \in {"confirmed", "finalized"}

\* while (attempt < MAX_RETRIES)
WhileCond_Inclusive(a) == a <= MAX_RETRIES
WhileCond(a) == a < MAX_RETRIES

\* "Determine next priority fee step"
NextPriorityFee_OffByOne(a, fee) ==
  IF a < Len(baseRetrySteps) THEN baseRetrySteps[a + 1] ELSE fee * 2
NextPriorityFee(a, fee) ==
  IF a - 1 < Len(baseRetrySteps) THEN baseRetrySteps[(a - 1) + 1] ELSE fee * 2

\* opts?.latestBlockhash ?? (await connection.getLatestBlockhash(...))
BlockhashForSend_Stale(optsBlockhash, chainTip) ==
  IF Len(sent) > 0 THEN sent[1].blockhash ELSE optsBlockhash
BlockhashForSend(optsBlockhash, chainTip) ==
  IF optsBlockhash # 0 THEN optsBlockhash ELSE chainTip

\* ixs = [createComputeBudgetIx(opts.prioritizationFee), ...ixs]
WithComputeBudget_InPlace(fee, ixs) ==
  <<[op |-> "setComputeUnitPrice", microLamports |-> fee]>>
    \o (IF sent = <<>> THEN ixs ELSE sent[Len(sent)].ixs)
WithComputeBudget(fee, ixs) ==
  IF fee # 0 THEN <<[op |-> "setComputeUnitPrice", microLamports |-> fee]>> \o ixs
  ELSE ixs

\* what getSignatureStatus can answer for a transaction in network state st:
\* the node may not know the signature (null value), report it processed, or
\* report an included transaction as confirmed or (once rooted) finalized
StatusResponses(st) ==
  {"null"} \cup (IF st = "processed" THEN {"processed"} ELSE {})
           \cup (IF st = "confirmed" THEN {"confirmed", "finalized"} ELSE {})

\* const nonZeroFees = recentFees.map(BigInt).filter(fee => fee > 0n)
nonZeroFees_NoFilter(fees) == fees
nonZeroFees(fees) == SelectSeq(fees, LAMBDA f : f > 0)

\* nonZeroFees.reduce((acc, fee) => acc + fee, 0n)
RECURSIVE totalFees(_)
totalFees(fees) ==
  IF fees = <<>> THEN 0 ELSE Head(fees) + totalFees(Tail(fees))

\* totalFees / BigInt(nonZeroFees.length): bigint division truncates
meanFee(fees) == totalFees(fees) \div Len(fees)

\* meanFee < BASE_PRIORITY_FEE ? BASE_PRIORITY_FEE : meanFee
finalFee(mean) == IF mean < BASE_PRIORITY_FEE THEN BASE_PRIORITY_FEE ELSE mean

\* the body of getDynamicPriorityFee after a successful fetch
\* (isNull: the RPC answered null/undefined)
getDynamicPriorityFee(isNull, fees) ==
  IF isNull \/ Len(fees) = 0 THEN BASE_PRIORITY_FEE
  ELSE IF Len(nonZeroFees(fees)) = 0 THEN BASE_PRIORITY_FEE
  ELSE finalFee(meanFee(nonZeroFees(fees)))

SendFrame == UNCHANGED <<feeVars, mktVars, cmdVars, monVars, depVars>>
FeeFrame == UNCHANGED <<sendVars, mktVars, cmdVars, monVars, depVars>>
MktFrame == UNCHANGED <<sendVars, feeVars, cmdVars, monVars, depVars>>
CmdFrame == UNCHANGED <<sendVars, feeVars, mktVars, monVars, depVars>>
MonFrame == UNCHANGED <<sendVars, feeVars, mktVars, cmdVars, depVars>>
DepFrame == UNCHANGED <<sendVars, feeVars, mktVars, cmdVars, monVars>>

\* ------------------------------------------------------------ sendWithRetry
SendIdle ==
  /\ pc = "idle" /\ attempt = 0 /\ signature = 0 /\ prioritizationFee = 0
  /\ latestBlockhash = 0 /\ txid = 0 /\ i = 0 /\ caught = "" /\ result = 0
  /\ error = "" /\ instructions = <<>> /\ initialFee = 0 /\ net = <<>>
  /\ sent = <<>> /\ bhLog = <<>> /\ tip = 1 /\ nStatus = 0 /\ nExpired = 0
  /\ nPending = 0 /\ confirmedSeen = {} /\ rechecked = 0

FeeIdle ==
  /\ pcF = "idle" /\ rpcFees = <<>> /\ rpcKind = "ok" /\ recentFees = <<>>
  /\ feeResult = 0 /\ nFetch = 0

MktIdle ==
  /\ pcM = "idle" /\ nSigs = 0 /\ evKinds = <<>> /\ signatures = 0
  /\ beforeSignature = 0 /\ iM = 0 /\ attemptM = 0 /\ marketsAll = <<>>
  /\ mIdx = 0 /\ side = "base" /\ attempts = 0 /\ returned = FALSE
  /\ nPages = 0 /\ pageFailed = FALSE /\ skipped = {} /\ nBatchFail = 0
  /\ gaveUp = {} /\ nVaultFail = 0 /\ warned = <<>> /\ fetched = <<>>

\* an error object: message and the raw `err` property (kind "none" = unset)
NoErr == [kind |-> "none", custom |-> 0]
NoError == [message |-> "", err |-> NoErr]
NoArgs ==
  [ownerKeypair |-> "ok", market |-> "absent", openOrders |-> "absent",
   orderId |-> "absent", clientOrderId |-> "absent", side |-> "absent",
   limit |-> Null, closeIndexer |-> FALSE]
NoAccount == [exists |-> FALSE, market |-> ""]

CmdIdle ==
  /\ cmd = "" /\ argv = NoArgs /\ chain = [openOrders |-> "ok", accounts |-> 0]
  /\ pcC = "idle" /\ branch = "none" /\ acctIdx = 0
  /\ openOrdersAccount = NoAccount /\ thrown = NoError /\ rpcLog = <<>>
  /\ built = <<>> /\ submitted = <<>> /\ exitCode = Null /\ logC = <<>>

NoTicks == [bestbidask |-> 0, book |-> 0]

MonIdle ==
  /\ pcMon = "idle" /\ monArgv = [bestbidask |-> FALSE, book |-> FALSE]
  /\ timers = {} /\ inflight = NoTicks /\ nTicks = 0 /\ nTickFail = 0
  /\ logMon = <<>> /\ stderrMon = <<>> /\ procMon = "ended"

DepIdle ==
  /\ pcD = "idle" /\ attemptD = 0 /\ feeD = 0 /\ initialFeeD = 0
  /\ sentD = <<>> /\ caughtD = "" /\ resultD = 0 /\ errorD = ""

Init ==
  /\ pc = "loop" /\ attempt = 0 /\ signature = 0
  /\ initialFee \in InitialFees
  /\ prioritizationFee = initialFee
  /\ latestBlockhash = 0 /\ txid = 0 /\ i = 0 /\ caught = "" /\ result = 0
  /\ error = ""
  /\ instructions = <<[op |-> "X"]>>
  /\ net = <<>> /\ sent = <<>> /\ bhLog = <<>> /\ tip = 1
  /\ nStatus = 0 /\ nExpired = 0 /\ nPending = 0
  /\ confirmedSeen = {} /\ rechecked = 0
  /\ FeeIdle /\ MktIdle /\ CmdIdle /\ MonIdle /\ DepIdle

\* let latestBlockhash = await connection.getLatestBlockhash('confirmed')
GetLatestBlockhash ==
  /\ pc = "loop" /\ WhileCond(attempt)
  /\ \/ /\ bhLog' = Append(bhLog, tip)
        /\ latestBlockhash' = tip
        /\ pc' = "send"
        /\ UNCHANGED caught
     \/ /\ caught' = RpcMsg
        /\ pc' = "catch"
        /\ UNCHANGED <<bhLog, latestBlockhash>>
  /\ UNCHANGED <<attempt, signature, prioritizationFee, txid, i, result, error,
                 instructions, initialFee, net, sent, tip, nStatus, nExpired,
                 nPending, confirmedSeen, rechecked>>
  /\ SendFrame

\* loop condition false: throw new Error('Transaction failed after multiple retries.')
ExitLoop ==
  /\ pc = "loop" /\ ~WhileCond(attempt)
  /\ pc' = "failed"
  /\ error' = RetriesMsg
  /\ UNCHANGED <<attempt, signature, prioritizationFee, latestBlockhash, txid, i,
                 caught, result, instructions, initialFee, net, sent, bhLog,
                 tip, nStatus, nExpired, nPending, confirmedSeen, rechecked>>
  /\ SendFrame

\* sendTransaction up to connection.sendRawTransaction
SendRawTransaction ==
  /\ pc = "send"
  /\ \/ /\ sent' = Append(sent,
                     [fee |-> prioritizationFee,
                      blockhash |-> BlockhashForSend(latestBlockhash, tip),
                      fetchNo |-> Len(bhLog),
                      expiredBefore |-> nExpired,
                      ixs |-> WithComputeBudget(prioritizationFee, instructions)])
        /\ net' = Append(net, "pending")
        /\ txid' = Len(sent) + 1
        /\ pc' = "confirm"
        /\ UNCHANGED caught
     \/ /\ caught' = RpcMsg
        /\ pc' = "catch"
        /\ UNCHANGED <<sent, net, txid>>
  /\ UNCHANGED <<attempt, signature, prioritizationFee, latestBlockhash, i,
                 result, error, instructions, initialFee, bhLog, tip, nStatus,
                 nExpired, nPending, confirmedSeen, rechecked>>
  /\ SendFrame

\* sendTransaction: connection.confirmTransaction(..., 'processed'), the
\* result.err test, and the assignment signature = await sendTransaction(...)
ConfirmTransaction ==
  /\ pc = "confirm"
  /\ tip' = tip + 1
  /\ \/ /\ net' = [net EXCEPT ![txid] = "processed"]
        /\ signature' = txid
        /\ i' = 0
        /\ pc' = "poll"
        /\ UNCHANGED <<caught, nExpired>>
     \/ /\ net' = [net EXCEPT ![txid] = "failed"]
        /\ caught' = OnChainMsg
        /\ pc' = "catch"
        /\ UNCHANGED <<signature, i, nExpired>>
     \/ /\ \E st \in {"expired"} \cup
                     (IF Cardinality(Landed) < MaxLanded THEN {"confirmed"} ELSE {}) :
             net' = [net EXCEPT ![txid] = st]
        /\ caught' = ExpiredMsg
        /\ nExpired' = nExpired + 1
        /\ pc' = "catch"
        /\ UNCHANGED <<signature, i>>
     \/ /\ caught' = RpcMsg
        /\ pc' = "catch"
        /\ UNCHANGED <<net, signature, i, nExpired>>
  /\ UNCHANGED <<attempt, prioritizationFee, latestBlockhash, txid, result, error,
                 instructions, initialFee, sent, bhLog, nStatus, nPending,
                 confirmedSeen, rechecked>>
  /\ SendFrame

\* confirmTransactionWithPolling called from the try block: one status query
PollStatus ==
  /\ pc = "poll" /\ i < maxChecks
  /\ nStatus' = nStatus + 1
  /\ \/ \E st \in StatusResponses(net[signature]) :
          /\ confirmedSeen' =
               IF st \in {"confirmed", "finalized"}
               THEN confirmedSeen \cup {signature} ELSE confirmedSeen
          /\ IF IsConfirmedStatus(st)
             THEN /\ result' = signature
                  /\ pc' = "returned"
                  /\ UNCHANGED i
             ELSE /\ i' = i + 1
                  /\ UNCHANGED <<result, pc>>
          /\ UNCHANGED caught
     \/ /\ caught' = RpcMsg
        /\ pc' = "catch"
        /\ UNCHANGED <<confirmedSeen, result, i>>
  /\ UNCHANGED <<attempt, signature, prioritizationFee, latestBlockhash, txid,
                 error, instructions, initialFee, net, sent, bhLog, tip,
                 nExpired, nPending, rechecked>>
  /\ SendFrame

\* polling returned false: warn "still pending", 5 s grace period, next iteration
PollTimeout_CountsAttempt ==
  /\ pc = "poll" /\ i = maxChecks
  /\ nPending < MaxPending
  /\ nPending' = nPending + 1
  /\ attempt' = attempt + 1
  /\ pc' = "loop"
  /\ UNCHANGED <<signature, prioritizationFee, latestBlockhash, txid, i,
                 caught, result, error, instructions, initialFee, net, sent,
                 bhLog, tip, nStatus, nExpired, confirmedSeen, rechecked>>
  /\ SendFrame
PollTimeout ==
  /\ pc = "poll" /\ i = maxChecks
  /\ nPending < MaxPending
  /\ nPending' = nPending + 1
  /\ pc' = "loop"
  /\ UNCHANGED <<attempt, signature, prioritizationFee, latestBlockhash, txid, i,
                 caught, result, error, instructions, initialFee, net, sent,
                 bhLog, tip, nStatus, nExpired, confirmedSeen, rechecked>>
  /\ SendFrame

\* catch (error): expiry test, attempt++, if (signature) re-check
Catch ==
  /\ pc = "catch"
  /\ IF IsExpiredError(caught)
     THEN /\ attempt' = attempt + 1
          /\ rechecked' = 0
          /\ IF signature # 0
             THEN pc' = "recheck" /\ i' = 0
             ELSE pc' = "escalate" /\ UNCHANGED i
          /\ UNCHANGED error
     ELSE /\ pc' = "failed"
          /\ error' = "Transaction failed: " \o caught
          /\ UNCHANGED <<attempt, rechecked, i>>
  /\ UNCHANGED <<signature, prioritizationFee, latestBlockhash, txid, caught,
                 result, instructions, initialFee, net, sent, bhLog, tip,
                 nStatus, nExpired, nPending, confirmedSeen>>
  /\ SendFrame

\* confirmTransactionWithPolling called from the catch clause: one status query
RecheckStatus ==
  /\ pc = "recheck" /\ i < maxChecks
  /\ nStatus' = nStatus + 1
  /\ rechecked' = signature
  /\ \/ \E st \in StatusResponses(net[signature]) :
          /\ confirmedSeen' =
               IF st \in {"confirmed", "finalized"}
               THEN confirmedSeen \cup {signature} ELSE confirmedSeen
          /\ IF IsConfirmedStatus(st)
             THEN /\ result' = signature
                  /\ pc' = "returned"
                  /\ UNCHANGED i
             ELSE /\ i' = i + 1
                  /\ UNCHANGED <<result, pc>>
          /\ UNCHANGED error
     \/ /\ error' = RpcMsg
        /\ pc' = "failed"
        /\ UNCHANGED <<confirmedSeen, result, i>>
  /\ UNCHANGED <<attempt, signature, prioritizationFee, latestBlockhash, txid,
                 caught, instructions, initialFee, net, sent, bhLog, tip,
                 nExpired, nPending>>
  /\ SendFrame

\* the re-check returned false
RecheckDone ==
  /\ pc = "recheck" /\ i = maxChecks
  /\ pc' = "escalate"
  /\ UNCHANGED <<attempt, signature, prioritizationFee, latestBlockhash, txid, i,
                 caught, result, error, instructions, initialFee, net, sent,
                 bhLog, tip, nStatus, nExpired, nPending, confirmedSeen,
                 rechecked>>
  /\ SendFrame

\* "Determine next priority fee step", then the next loop iteration
Escalate ==
  /\ pc = "escalate"
  /\ prioritizationFee' = NextPriorityFee(attempt, prioritizationFee)
  /\ pc' = "loop"
  /\ UNCHANGED <<attempt, signature, latestBlockhash, txid, i, caught, result,
                 error, instructions, initialFee, net, sent, bhLog, tip,
                 nStatus, nExpired, nPending, confirmedSeen, rechecked>>
  /\ SendFrame

\* the cluster votes on a processed transaction: it is included for good
NetworkProgress ==
  /\ \E s \in 1..Len(net) :
       /\ net[s] = "processed"
       /\ Cardinality(Landed) < MaxLanded
       /\ net' = [net EXCEPT ![s] = "confirmed"]
  /\ UNCHANGED <<pc, attempt, signature, prioritizationFee, latestBlockhash, txid,
                 i, caught, result, error, instructions, initialFee, sent,
                 bhLog, tip, nStatus, nExpired, nPending, confirmedSeen,
                 rechecked>>
  /\ SendFrame

Next ==
  \/ GetLatestBlockhash
  \/ ExitLoop
  \/ SendRawTransaction
  \/ ConfirmTransaction
  \/ PollStatus
  \/ PollTimeout
  \/ Catch
  \/ RecheckStatus
  \/ RecheckDone
  \/ Escalate
  \/ NetworkProgress

Spec == Init /\ [][Next]_vars

\* ---------------------------------------------------- getDynamicPriorityFee
RECURSIVE SeqsUpTo(_, _)
SeqsUpTo(S, n) ==
  IF n = 0 THEN {<<>>}
  ELSE LET shorter == SeqsUpTo(S, n - 1)
       IN shorter \cup {Append(q, x) : q \in shorter, x \in S}

InitFee ==
  /\ SendIdle /\ MktIdle /\ CmdIdle /\ MonIdle /\ DepIdle
  /\ pcF = "start"
  /\ rpcKind \in {"ok", "empty", "error"}
  /\ rpcFees \in (IF rpcKind = "ok" THEN SeqsUpTo(SampleValues, MaxSamples) ELSE {<<>>})
  /\ recentFees = <<>> /\ feeResult = 0 /\ nFetch = 0

\* const recentFees = await connection.getRecentPrioritizationFees()
FetchRecentFees ==
  /\ pcF = "start"
  /\ nFetch' = nFetch + 1
  /\ IF rpcKind = "error"
     THEN pcF' = "caught" /\ UNCHANGED recentFees
     ELSE pcF' = "fetched" /\ recentFees' = rpcFees
  /\ UNCHANGED <<rpcFees, rpcKind, feeResult>>
  /\ FeeFrame

\* the rest of the try block: empty/zero tests, mean, floor at the base fee
ComputePriorityFee ==
  /\ pcF = "fetched"
  /\ feeResult' = getDynamicPriorityFee(rpcKind = "empty", recentFees)
  /\ pcF' = "done"
  /\ UNCHANGED <<rpcFees, rpcKind, recentFees, nFetch>>
  /\ FeeFrame

\* a catch block that repeats the fetch once before falling back
CatchFetchError_Retry ==
  /\ pcF = "caught"
  /\ IF nFetch < 2
     THEN pcF' = "start" /\ UNCHANGED feeResult
     ELSE pcF' = "done" /\ feeResult' = BASE_PRIORITY_FEE
  /\ UNCHANGED <<rpcFees, rpcKind, recentFees, nFetch>>
  /\ FeeFrame

\* catch (error): warn and return BASE_PRIORITY_FEE
CatchFetchError ==
  /\ pcF = "caught"
  /\ feeResult' = BASE_PRIORITY_FEE
  /\ pcF' = "done"
  /\ UNCHANGED <<rpcFees, rpcKind, recentFees, nFetch>>
  /\ FeeFrame

NextFee ==
  \/ FetchRecentFees
  \/ ComputePriorityFee
  \/ CatchFetchError

SpecFee == InitFee /\ [][NextFee]_vars

\* ----------------------------------------------------------- findAllMarkets
\* position in the log of the j-th eventful transaction (one per batch)
EventPos(j) == (j - 1) * BATCH_TX_SIZE + 1

\* an event field the decoder did not produce
Absent == 0

\* payload of an inner instruction as the event decoder sees it
EventData(disc, m, withVaults) ==
  [disc |-> disc, market |-> m,
   baseMint |-> IF m = Absent THEN Absent ELSE 1,
   quoteMint |-> IF m = Absent THEN Absent ELSE 2,
   name |-> IF m = Absent THEN "" ELSE "MKT",
   market_base_vault |-> IF withVaults THEN 2 * m ELSE Absent,
   market_quote_vault |-> IF withVaults THEN 2 * m + 1 ELSE Absent]

InnerIx(accounts, programIdIndex, data) ==
  [accounts |-> accounts, programIdIndex |-> programIdIndex, data |-> data]

\* the transaction at position k of the log when it is of the given kind
TxOfKind(kind, k) ==
  LET okKeys == <<"eventAuthority", "programId">>
      one(keys, ix) ==
        [isNull |-> FALSE, blockTime |-> k, staticAccountKeys |-> keys,
         innerInstructions |-> <<<<ix>>>>]
  IN CASE kind = "create" ->
            one(okKeys, InnerIx(<<0>>, 1, EventData("MarketMetaDataLog", 10 * k, TRUE)))
       [] kind = "createBare" ->
            one(okKeys, InnerIx(<<0>>, 1, EventData("MarketMetaDataLog", 10 * k, FALSE)))
       [] kind = "two" ->
            [isNull |-> FALSE, blockTime |-> k, staticAccountKeys |-> okKeys,
             innerInstructions |->
               << <<InnerIx(<<0>>, 1, EventData("MarketMetaDataLog", 10 * k, TRUE))>>,
                  <<InnerIx(<<>>, 1, EventData("MarketMetaDataLog", 10 * k + 2, TRUE)),
                    InnerIx(<<0>>, 1, EventData("MarketMetaDataLog", 10 * k + 1, TRUE))>> >>]
       [] kind = "other" ->
            one(okKeys, InnerIx(<<0>>, 1, EventData("FillLog", Absent, FALSE)))
       [] kind = "foreign" ->
            one(<<"someAccount", "programId">>,
                InnerIx(<<0>>, 1, EventData("MarketMetaDataLog", 10 * k, TRUE)))
       [] kind = "badIndex" ->
            one(okKeys, InnerIx(<<0>>, 2, EventData("MarketMetaDataLog", 10 * k, TRUE)))
       [] kind = "garbled" ->
            one(okKeys, InnerIx(<<0>>, 1, EventData("garbled", Absent, FALSE)))
       [] kind = "garbledThenCreate" ->
            [isNull |-> FALSE, blockTime |-> k, staticAccountKeys |-> okKeys,
             innerInstructions |->
               << <<InnerIx(<<0>>, 1, EventData("garbled", Absent, FALSE)),
                    InnerIx(<<0>>, 1, EventData("MarketMetaDataLog", 10 * k, TRUE))>> >>]
       [] kind = "unknown" ->
            one(okKeys, InnerIx(<<0>>, 1, EventData("unknown", Absent, FALSE)))
       [] kind = "nulltx" ->
            [isNull |-> TRUE, blockTime |-> k, staticAccountKeys |-> <<>>,
             innerInstructions |-> <<>>]
       [] OTHER ->
            [isNull |-> FALSE, blockTime |-> k, staticAccountKeys |-> okKeys,
             innerInstructions |-> <<>>]

\* the transaction getTransactions answers for the k-th signature of the log
TxAt(kinds, k) ==
  IF \E j \in 1..Len(kinds) : EventPos(j) = k
  THEN TxOfKind(kinds[CHOOSE j \in 1..Len(kinds) : EventPos(j) = k], k)
  ELSE TxOfKind("plain", k)

\* program.coder.events.decode: "throws" on a malformed payload, "null" on an
\* unknown discriminator, otherwise the event of whatever kind the IDL names
decode(data) ==
  CASE data.disc = "garbled" -> [kind |-> "throws"]
    [] data.disc = "unknown" -> [kind |-> "null"]
    [] OTHER -> [kind |-> "event", name |-> data.disc, data |-> data]

\* the record pushed for a decoded event
MarketRecord(tx, data) ==
  [market |-> IF data.market # Absent THEN data.market ELSE NA,
   baseMint |-> IF data.baseMint # Absent THEN data.baseMint ELSE NA,
   quoteMint |-> IF data.quoteMint # Absent THEN data.quoteMint ELSE NA,
   name |-> IF data.name # "" THEN data.name ELSE "Unknown",
   timestamp |-> tx.blockTime,
   baseVault |-> IF data.market_base_vault # Absent
                 THEN data.market_base_vault ELSE Null,
   quoteVault |-> IF data.market_quote_vault # Absent
                  THEN data.market_quote_vault ELSE Null,
   baseVaultBalance |-> Unavailable,
   quoteVaultBalance |-> Unavailable]

\* for (const innerIx of ...): the records one inner instruction yields
ProcessIx_NoKeyTest(tx, innerIx) ==
  IF innerIx.accounts = <<>> \/ innerIx.programIdIndex = Null
  THEN <<>>
  ELSE LET event == decode(innerIx.data)
       IN IF event.kind = "event"
          THEN <<MarketRecord(tx, event.data)>>
          ELSE <<>>
ProcessIx(tx, innerIx) ==
  IF innerIx.accounts = <<>> \/ innerIx.programIdIndex = Null
  THEN <<>>
  ELSE LET eventAuthorityKey == innerIx.accounts[1]
           programKey == innerIx.programIdIndex
           staticKeys == tx.staticAccountKeys
       IN IF \/ eventAuthorityKey >= Len(staticKeys)
             \/ programKey >= Len(staticKeys)
             \/ staticKeys[eventAuthorityKey + 1] # "eventAuthority"
             \/ staticKeys[programKey + 1] # "programId"
          THEN <<>>
          ELSE LET event == decode(innerIx.data)
               IN IF event.kind = "event"
                  THEN <<MarketRecord(tx, event.data)>>
                  ELSE <<>>

RECURSIVE ProcessIxs(_, _)
ProcessIxs(tx, ixs) ==
  IF ixs = <<>> THEN <<>>
  ELSE ProcessIx(tx, Head(ixs)) \o ProcessIxs(tx, Tail(ixs))

RECURSIVE ProcessGroups(_, _)
ProcessGroups(tx, groups) ==
  IF groups = <<>> THEN <<>>
  ELSE ProcessIxs(tx, Head(groups)) \o ProcessGroups(tx, Tail(groups))

\* for (const tx of allTxs): the records one transaction yields
ProcessTx(tx) ==
  IF tx.isNull THEN <<>> ELSE ProcessGroups(tx, tx.innerInstructions)

\* the records of the log entries from..to, in log order
RECURSIVE ProcessRange(_, _, _)
ProcessRange(kinds, from, to) ==
  IF from > to THEN <<>>
  ELSE ProcessTx(TxAt(kinds, from)) \o ProcessRange(kinds, from + 1, to)

\* catch (decodeError): the warnings one inner instruction yields, each naming
\* the transaction's first signature (its position k in the log)
WarnIx(tx, k, innerIx) ==
  IF innerIx.accounts = <<>> \/ innerIx.programIdIndex = Null
  THEN <<>>
  ELSE LET eventAuthorityKey == innerIx.accounts[1]
           programKey == innerIx.programIdIndex
           staticKeys == tx.staticAccountKeys
       IN IF \/ eventAuthorityKey >= Len(staticKeys)
             \/ programKey >= Len(staticKeys)
             \/ staticKeys[eventAuthorityKey + 1] # "eventAuthority"
             \/ staticKeys[programKey + 1] # "programId"
          THEN <<>>
          ELSE IF decode(innerIx.data).kind = "throws" THEN <<k>> ELSE <<>>

RECURSIVE WarnIxs(_, _, _)
WarnIxs(tx, k, ixs) ==
  IF ixs = <<>> THEN <<>>
  ELSE WarnIx(tx, k, Head(ixs)) \o WarnIxs(tx, k, Tail(ixs))

RECURSIVE WarnGroups(_, _, _)
WarnGroups(tx, k, groups) ==
  IF groups = <<>> THEN <<>>
  ELSE WarnIxs(tx, k, Head(groups)) \o WarnGroups(tx, k, Tail(groups))

\* the decode warnings of the log entries from..to, in log order
RECURSIVE WarnRange(_, _, _)
WarnRange(kinds, from, to) ==
  IF from > to THEN <<>>
  ELSE (IF TxAt(kinds, from).isNull THEN <<>>
        ELSE WarnGroups(TxAt(kinds, from), from,
                        TxAt(kinds, from).innerInstructions))
       \o WarnRange(kinds, from + 1, to)

\* signatures.slice(i, i + BATCH_TX_SIZE), as the last position it covers
BatchEnd(start, n) ==
  IF start + BATCH_TX_SIZE < n THEN start + BATCH_TX_SIZE ELSE n

\* the length test that ends the pagination loop
PageIsLast_Never(len) == FALSE
PageIsLast(len) == len < MAX_SIGNATURES_PER_REQUEST

\* the page getSignaturesForAddress answers after the cursor `before`
PageLength(n, before) ==
  IF n - before < MAX_SIGNATURES_PER_REQUEST
  THEN n - before ELSE MAX_SIGNATURES_PER_REQUEST

\* the next <<market index, side>> whose vault address is set, from <<m, sd>>
RECURSIVE NextVault(_, _, _)
NextVault(markets, m, sd) ==
  IF m > Len(markets) THEN <<m, "base">>
  ELSE IF sd = "base"
       THEN IF markets[m].baseVault # Null THEN <<m, sd>>
            ELSE NextVault(markets, m, "quote")
       ELSE IF markets[m].quoteVault # Null THEN <<m, sd>>
            ELSE NextVault(markets, m + 1, "base")

\* what follows <<m, sd>> in the vault loop
AfterVault(markets, m, sd) ==
  IF sd = "base" THEN NextVault(markets, m, "quote")
  ELSE NextVault(markets, m + 1, "base")

\* market.baseVaultBalance = ... / market.quoteVaultBalance = ...
SetBalance(markets, m, sd, v) ==
  IF sd = "base"
  THEN [markets EXCEPT ![m].baseVaultBalance = v]
  ELSE [markets EXCEPT ![m].quoteVaultBalance = v]

\* getVaultBalance's answer after its last failed attempt
ExhaustedBalance_Amount == CHOOSE v \in VaultAmounts : v > 0
ExhaustedBalance == Unavailable

\* getVaultBalance's answer for a fulfilled request
BalanceOf_Raw(uiAmount) == uiAmount
BalanceOf(uiAmount) == IF uiAmount = 0 THEN Unavailable ELSE uiAmount

InitMarkets ==
  /\ SendIdle /\ FeeIdle /\ CmdIdle /\ MonIdle /\ DepIdle
  /\ pcM = "sigs"
  /\ nSigs \in SigCounts
  /\ evKinds \in SeqsUpTo(TxKinds,
                 IF nSigs >= MAX_SIGNATURES_PER_REQUEST THEN 1 ELSE MaxEventful)
  /\ Len(evKinds) > 0 => EventPos(Len(evKinds)) <= nSigs
  /\ signatures = 0 /\ beforeSignature = 0 /\ iM = 0 /\ attemptM = 0
  /\ marketsAll = <<>> /\ mIdx = 0 /\ side = "base" /\ attempts = 0
  /\ returned = FALSE /\ nPages = 0 /\ pageFailed = FALSE /\ skipped = {}
  /\ nBatchFail = 0 /\ gaveUp = {} /\ nVaultFail = 0
  /\ warned = <<>> /\ fetched = <<>>

\* const newSignatures = await connection.getSignaturesForAddress(...)
FetchSignaturePage_FailureDrops ==
  /\ pcM = "sigs"
  /\ nPages' = nPages + 1
  /\ \/ /\ pageFailed' = TRUE
        /\ pcM' = "batch"
        /\ signatures' = 0
        /\ UNCHANGED beforeSignature
     \/ LET len == PageLength(nSigs, beforeSignature)
        IN /\ UNCHANGED pageFailed
           /\ IF len = 0
              THEN pcM' = "batch" /\ UNCHANGED <<signatures, beforeSignature>>
              ELSE /\ signatures' = signatures + len
                   /\ beforeSignature' = beforeSignature + len
                   /\ pcM' = IF PageIsLast(len) THEN "batch" ELSE "sigs"
  /\ UNCHANGED <<nSigs, evKinds, iM, attemptM, marketsAll, mIdx, side,
                 attempts, returned, skipped, nBatchFail, gaveUp, nVaultFail>>
  /\ UNCHANGED <<warned, fetched>>
  /\ MktFrame
FetchSignaturePage ==
  /\ pcM = "sigs"
  /\ nPages' = nPages + 1
  /\ \/ \* the request rejects: log the error and leave the loop
        /\ pageFailed' = TRUE
        /\ pcM' = "batch"
        /\ UNCHANGED <<signatures, beforeSignature>>
     \/ LET len == PageLength(nSigs, beforeSignature)
        IN /\ UNCHANGED pageFailed
           /\ IF len = 0
              THEN pcM' = "batch" /\ UNCHANGED <<signatures, beforeSignature>>
              ELSE /\ signatures' = signatures + len
                   /\ beforeSignature' = beforeSignature + len
                   /\ pcM' = IF PageIsLast(len) THEN "batch" ELSE "sigs"
  /\ UNCHANGED <<nSigs, evKinds, iM, attemptM, marketsAll, mIdx, side,
                 attempts, returned, skipped, nBatchFail, gaveUp, nVaultFail>>
  /\ UNCHANGED <<warned, fetched>>
  /\ MktFrame

\* allTxs = await connection.getTransactions(batch, ...) and, when it is
\* fulfilled, the processing of the batch's transactions
FetchBatch ==
  /\ pcM = "batch" /\ iM < signatures /\ attemptM < MARKET_MAX_RETRIES
  /\ \/ /\ marketsAll' =
             marketsAll \o ProcessRange(evKinds, iM + 1, BatchEnd(iM, signatures))
        /\ warned' =
             warned \o WarnRange(evKinds, iM + 1, BatchEnd(iM, signatures))
        /\ iM' = iM + BATCH_TX_SIZE
        /\ attemptM' = 0
        /\ UNCHANGED nBatchFail
     \/ \* the request rejects: attempt++, warn, wait two seconds
        /\ nBatchFail + nVaultFail < MaxFailures
        /\ attemptM' = attemptM + 1
        /\ nBatchFail' = nBatchFail + 1
        /\ UNCHANGED <<iM, marketsAll, warned>>
  /\ UNCHANGED <<pcM, nSigs, evKinds, signatures, beforeSignature, mIdx, side,
                 attempts, returned, nPages, pageFailed, skipped, gaveUp,
                 nVaultFail, fetched>>
  /\ MktFrame

\* a mutant of the step after the third failure: the batch loop is abandoned
BatchExhausted_Abort ==
  /\ pcM = "batch" /\ iM < signatures /\ attemptM >= MARKET_MAX_RETRIES
  /\ skipped' = skipped \cup {iM}
  /\ iM' = signatures
  /\ attemptM' = 0
  /\ UNCHANGED <<pcM, nSigs, evKinds, signatures, beforeSignature, marketsAll,
                 mIdx, side, attempts, returned, nPages, pageFailed,
                 nBatchFail, gaveUp, nVaultFail>>
  /\ UNCHANGED <<warned, fetched>>
  /\ MktFrame

\* the retry loop ends with allTxs still empty: nothing is processed and the
\* for loop moves to the next batch
BatchExhausted ==
  /\ pcM = "batch" /\ iM < signatures /\ attemptM >= MARKET_MAX_RETRIES
  /\ skipped' = skipped \cup {iM}
  /\ iM' = iM + BATCH_TX_SIZE
  /\ attemptM' = 0
  /\ UNCHANGED <<pcM, nSigs, evKinds, signatures, beforeSignature, marketsAll,
                 mIdx, side, attempts, returned, nPages, pageFailed,
                 nBatchFail, gaveUp, nVaultFail>>
  /\ UNCHANGED <<warned, fetched>>
  /\ MktFrame

\* the batch loop ends; the vault loop starts at the first vault that is set
BatchesDone ==
  /\ pcM = "batch" /\ iM >= signatures
  /\ pcM' = "vault"
  /\ mIdx' = NextVault(marketsAll, 1, "base")[1]
  /\ side' = NextVault(marketsAll, 1, "base")[2]
  /\ attempts' = 0
  /\ UNCHANGED <<nSigs, evKinds, signatures, beforeSignature, iM, attemptM,
                 marketsAll, returned, nPages, pageFailed, skipped,
                 nBatchFail, gaveUp, nVaultFail>>
  /\ UNCHANGED <<warned, fetched>>
  /\ MktFrame

\* const balanceInfo = await connection.getTokenAccountBalance(vaultAddress)
GetTokenAccountBalance ==
  /\ pcM = "vault" /\ mIdx <= Len(marketsAll) /\ attempts < MARKET_MAX_RETRIES
  /\ \/ \E uiAmount \in VaultAmounts :
          /\ marketsAll' = SetBalance(marketsAll, mIdx, side, BalanceOf(uiAmount))
          /\ mIdx' = AfterVault(marketsAll, mIdx, side)[1]
          /\ side' = AfterVault(marketsAll, mIdx, side)[2]
          /\ attempts' = 0
          /\ fetched' = Append(fetched, uiAmount)
          /\ UNCHANGED nVaultFail
     \/ \* the request rejects: attempts++, warn, wait one second
        /\ nBatchFail + nVaultFail < MaxFailures
        /\ attempts' = attempts + 1
        /\ nVaultFail' = nVaultFail + 1
        /\ UNCHANGED <<marketsAll, mIdx, side, fetched>>
  /\ UNCHANGED <<pcM, nSigs, evKinds, signatures, beforeSignature, iM,
                 attemptM, returned, nPages, pageFailed, skipped, nBatchFail,
                 gaveUp, warned>>
  /\ MktFrame

\* getVaultBalance after its last attempt: log the final failure and return
\* 'Unavailable', which the vault loop stores in the record
VaultExhausted ==
  /\ pcM = "vault" /\ mIdx <= Len(marketsAll) /\ attempts >= MARKET_MAX_RETRIES
  /\ marketsAll' = SetBalance(marketsAll, mIdx, side, ExhaustedBalance)
  /\ gaveUp' = gaveUp \cup {<<mIdx, side>>}
  /\ mIdx' = AfterVault(marketsAll, mIdx, side)[1]
  /\ side' = AfterVault(marketsAll, mIdx, side)[2]
  /\ attempts' = 0
  /\ UNCHANGED <<pcM, nSigs, evKinds, signatures, beforeSignature, iM,
                 attemptM, returned, nPages, pageFailed, skipped, nBatchFail,
                 nVaultFail>>
  /\ UNCHANGED <<warned, fetched>>
  /\ MktFrame

\* return marketsAll
ReturnMarkets ==
  /\ pcM = "vault" /\ mIdx > Len(marketsAll)
  /\ pcM' = "done"
  /\ returned' = TRUE
  /\ UNCHANGED <<nSigs, evKinds, signatures, beforeSignature, iM, attemptM,
                 marketsAll, mIdx, side, attempts, nPages, pageFailed,
                 skipped, nBatchFail, gaveUp, nVaultFail>>
  /\ UNCHANGED <<warned, fetched>>
  /\ MktFrame

NextMarkets ==
  \/ FetchSignaturePage
  \/ FetchBatch
  \/ BatchExhausted
  \/ BatchesDone
  \/ GetTokenAccountBalance
  \/ VaultExhausted
  \/ ReturnMarkets

SpecMarkets == InitMarkets /\ [][NextMarkets]_vars

\* --------------------------------------------------------- command handlers
\* accounts of the owner on one market (closeOOA --market)
MaxAccounts == 2

\* venue custom error codes a failed transaction may carry (two entries of the
\* table, and one code the table does not hold)
ErrorCodes == {100, 304, 6000}

\* utils/error.ts: the code -> message table (the entries the model uses)
OpenBookErrors ==
  (100 :> "Cannot close the OpenOrders indexer because there are still active OpenOrders accounts.")
  @@ (304 :> "Fill-Or-Kill order would generate a partial execution.")

getOpenBookErrorMessage(errorCode) ==
  IF errorCode \in DOMAIN OpenBookErrors
  THEN OpenBookErrors[errorCode]
  ELSE "Unknown OpenBook error: " \o ToString(errorCode)

\* new OpenBookError({txid, err}) for a transaction that failed on chain with
\* InstructionError [0, {Custom: c}]
OpenBookError(c) ==
  [message |-> "Transaction failed with error: {InstructionError:[0,{Custom:"
                 \o ToString(c) \o "}]}",
   err |-> [kind |-> "InstructionError", custom |-> c]]

\* new Error(text)
PlainError(text) == [message |-> text, err |-> NoErr]

\* sendWithRetry's catch clause for an error that is not an expiry:
\* throw new Error(`Transaction failed: ${error.message}`)
Rethrown(e) == PlainError("Transaction failed: " \o e.message)

\* handleOpenBookError: the lines it logs for an error
handleOpenBookError(e) ==
  <<"Raw error response: " \o e.message>> \o
  (IF e.err.kind = "InstructionError"
   THEN <<"Detailed InstructionError: {Custom:" \o ToString(e.err.custom) \o "}",
          "OpenBook Error (" \o ToString(e.err.custom) \o "): "
            \o getOpenBookErrorMessage(e.err.custom)>>
   ELSE <<"Unexpected error format: " \o e.message>>)

\* the two tests on the fetched OpenOrders account
OpenOrdersValid_ExistsOnly(account, market) == account.exists
OpenOrdersValid(account, market) == account.exists /\ account.market = market

\* the message thrown when a test fails
OpenOrdersError(account) ==
  IF ~account.exists
  THEN PlainError("OpenOrders account not found.")
  ELSE PlainError("OpenOrders account does not belong to the specified market.")

\* what deserializeOpenOrderAccount answers
FetchedAccount(state) ==
  CASE state = "missing" -> NoAccount
    [] state = "otherMarket" -> [exists |-> TRUE, market |-> "otherMarket"]
    [] OTHER -> [exists |-> TRUE, market |-> "market"]

\* the steps of each handler, in program order
cancelOrderSteps ==
  <<"check", "loadKeypair", "loadMarketKey", "loadOpenOrdersKey", "fetchMarket",
    "fetchOpenOrders", "validateOpenOrders", "buildIx", "fee", "send">>
depositSteps ==
  <<"loadKeypair", "loadMarketKey", "loadOpenOrdersKey", "fetchMarket",
    "fetchOpenOrders", "validateOpenOrders", "buildIx", "fee", "send">>
withdrawSteps ==
  <<"loadKeypair", "loadMarketKey", "loadOpenOrdersKey", "fetchMarket",
    "fetchOpenOrders", "validateOpenOrders", "ensureBaseAta", "ensureQuoteAta",
    "buildIx", "fee", "send">>
placeOrderSteps ==
  <<"loadKeypair", "loadMarketKey", "loadOpenOrdersKey", "fetchMarket",
    "fetchOpenOrders", "validateOpenOrders", "loadMarket", "buildIx", "fee",
    "send">>
createOOASteps ==
  <<"testConnection", "loadKeypair", "loadMarketKey", "createOpenOrders">>
closeOOASteps == <<"loadKeypair", "dispatch">>

HandlerSteps(c) ==
  CASE c = "cancelOrder" -> cancelOrderSteps
    [] c = "deposit" -> depositSteps
    [] c = "withdraw" -> withdrawSteps
    [] c = "placeOrder" -> placeOrderSteps
    [] c = "createOOA" -> createOOASteps
    [] OTHER -> closeOOASteps

Commands ==
  {"cancelOrder", "deposit", "withdraw", "placeOrder", "createOOA", "closeOOA"}

\* the steps that run before the handler's try block
BeforeTry ==
  {"check", "testConnection", "loadKeypair", "loadMarketKey",
   "loadOpenOrdersKey"}

\* the step that follows `step` in handler c ("return" after the last one)
After(c, step) ==
  LET steps == HandlerSteps(c)
      k == CHOOSE n \in 1..Len(steps) : steps[n] = step
  IN IF k < Len(steps) THEN steps[k + 1] ELSE "return"

\* where an error thrown at `step` is caught
CatchOf(c, step, br) ==
  IF c = "closeOOA"
  THEN CASE step = "loadKeypair" -> "rejected"
         [] br = "market" /\ step \in {"buildIx", "fee", "send"} -> "closeLoopCatch"
         [] br = "indexer" -> "closeIndexerCatch"
         [] OTHER -> "closeOuterCatch"
  ELSE IF step \in BeforeTry THEN "rejected" ELSE "catch"

\* what yargs hands the handler for a string option: undefined when the flag
\* is absent, otherwise its text, which may be empty (--orderId "")
OptionValues == {"absent", "", "17"}

\* if (argv.orderId) / else if (argv.clientOrderId): JavaScript truthiness of
\* string | undefined
Truthy(v) == v \notin {"absent", ""}

\* client.cancelAllOrdersIx(openOrdersPubkey, openOrdersAccount,
\* market.account, limit, side)
CancelAllOrdersIx(lim, sd) ==
  "cancelAllOrders(" \o ToString(lim) \o ", " \o sd \o ")"

\* the instruction a handler builds
IxName(c, args, br) ==
  CASE c = "cancelOrder" ->
         IF Truthy(args.orderId) THEN "cancelOrderById"
         ELSE IF Truthy(args.clientOrderId) THEN "cancelOrderByClientId"
         ELSE CancelAllOrdersIx(IF args.limit # Null THEN args.limit ELSE 12,
                                IF args.side # "absent" THEN args.side ELSE "null")
    [] c = "deposit" -> "deposit"
    [] c = "withdraw" -> "settleFunds"
    [] c = "placeOrder" -> "placeOrder"
    [] c = "createOOA" -> "createOpenOrders"
    [] OTHER -> IF br = "indexer" THEN "closeOpenOrdersIndexer"
                ELSE "closeOpenOrdersAccount"

InitCmd ==
  /\ SendIdle /\ FeeIdle /\ MktIdle /\ MonIdle /\ DepIdle
  /\ cmd \in Commands
  /\ argv \in
       [ownerKeypair : {"ok", "unreadable"},
        market : IF cmd = "closeOOA" THEN {"absent", "ok", "malformed"}
                 ELSE {"ok", "malformed"},
        openOrders : IF cmd = "closeOOA" THEN {"absent", "ok", "malformed"}
                     ELSE IF cmd = "createOOA" THEN {"absent"}
                     ELSE {"ok", "malformed"},
        orderId : IF cmd = "cancelOrder" THEN OptionValues ELSE {"absent"},
        clientOrderId : IF cmd = "cancelOrder" THEN OptionValues ELSE {"absent"},
        side : IF cmd = "cancelOrder" THEN {"absent", "bid"} ELSE {"absent"},
        limit : IF cmd = "cancelOrder" THEN {Null, 5} ELSE {Null},
        closeIndexer : IF cmd = "closeOOA" THEN BOOLEAN ELSE {FALSE}]
  /\ chain \in
       [openOrders : IF cmd \in {"cancelOrder", "deposit", "withdraw", "placeOrder"}
                     THEN {"missing", "otherMarket", "ok"} ELSE {"ok"},
        accounts : IF cmd = "closeOOA" THEN 0..MaxAccounts ELSE {0}]
  /\ pcC = HandlerSteps(cmd)[1]
  /\ branch = "none" /\ acctIdx = 0 /\ openOrdersAccount = NoAccount
  /\ thrown = NoError /\ rpcLog = <<>> /\ built = <<>> /\ submitted = <<>>
  /\ exitCode = Null /\ logC = <<>>

\* .check((argv) => ...): cancel-order refuses --orderId with --clientOrderId
YargsCheck ==
  /\ pcC = "check"
  /\ IF Truthy(argv.orderId) /\ Truthy(argv.clientOrderId)
     THEN /\ thrown' = PlainError("Specify either --orderId or --clientOrderId, but not both.")
          /\ pcC' = CatchOf(cmd, pcC, branch)
     ELSE pcC' = After(cmd, pcC) /\ UNCHANGED thrown
  /\ UNCHANGED <<cmd, argv, chain, branch, acctIdx, openOrdersAccount, rpcLog,
                 built, submitted, exitCode, logC>>
  /\ CmdFrame

\* const owner = loadKeypair(argv.ownerKeypair)
LoadKeypair ==
  /\ pcC = "loadKeypair"
  /\ IF argv.ownerKeypair = "unreadable"
     THEN /\ thrown' = PlainError("Failed to load keypair from file")
          /\ pcC' = CatchOf(cmd, pcC, branch)
     ELSE pcC' = After(cmd, pcC) /\ UNCHANGED thrown
  /\ UNCHANGED <<cmd, argv, chain, branch, acctIdx, openOrdersAccount, rpcLog,
                 built, submitted, exitCode, logC>>
  /\ CmdFrame

\* loadPublicKey(argv.market) / loadPublicKey(argv.openOrders)
LoadPublicKey ==
  /\ pcC \in {"loadMarketKey", "loadOpenOrdersKey"}
  /\ LET key == IF pcC = "loadMarketKey" THEN argv.market ELSE argv.openOrders
     IN IF key = "malformed"
        THEN /\ thrown' = PlainError("Invalid public key")
             /\ pcC' = CatchOf(cmd, pcC, branch)
        ELSE pcC' = After(cmd, pcC) /\ UNCHANGED thrown
  /\ UNCHANGED <<cmd, argv, chain, branch, acctIdx, openOrdersAccount, rpcLog,
                 built, submitted, exitCode, logC>>
  /\ CmdFrame

\* const isConnected = await testConnection(connection); exit(1) when false
TestConnection ==
  /\ pcC = "testConnection"
  /\ rpcLog' = Append(rpcLog, "testConnection")
  /\ \/ pcC' = After(cmd, pcC) /\ UNCHANGED exitCode
     \/ pcC' = "exited" /\ exitCode' = 1
  /\ UNCHANGED <<cmd, argv, chain, branch, acctIdx, openOrdersAccount, thrown,
                 built, submitted, logC>>
  /\ CmdFrame

\* the market account is read: connection.getAccountInfo(marketPubkey),
\* validateAndFetchMarket or Market.load
FetchMarket ==
  /\ pcC \in {"fetchMarket", "loadMarket"}
  /\ rpcLog' = Append(rpcLog, "getAccountInfo")
  /\ \/ pcC' = After(cmd, pcC) /\ UNCHANGED thrown
     \/ /\ thrown' = PlainError("Market data not found.")
        /\ pcC' = CatchOf(cmd, pcC, branch)
  /\ UNCHANGED <<cmd, argv, chain, branch, acctIdx, openOrdersAccount, built,
                 submitted, exitCode, logC>>
  /\ CmdFrame

\* const openOrdersAccount = await client.deserializeOpenOrderAccount(...)
FetchOpenOrders ==
  /\ pcC = "fetchOpenOrders"
  /\ rpcLog' = Append(rpcLog, "deserializeOpenOrderAccount")
  /\ \/ /\ openOrdersAccount' = FetchedAccount(chain.openOrders)
        /\ pcC' = After(cmd, pcC)
        /\ UNCHANGED thrown
     \/ /\ thrown' = PlainError(RpcMsg)
        /\ pcC' = CatchOf(cmd, pcC, branch)
        /\ UNCHANGED openOrdersAccount
  /\ UNCHANGED <<cmd, argv, chain, branch, acctIdx, built, submitted,
                 exitCode, logC>>
  /\ CmdFrame

\* if (!openOrdersAccount) throw ...; if (openOrdersAccount.market ... !==
\* marketPubkey ...) throw ...
ValidateOpenOrders ==
  /\ pcC = "validateOpenOrders"
  /\ IF OpenOrdersValid(openOrdersAccount, "market")
     THEN pcC' = After(cmd, pcC) /\ UNCHANGED thrown
     ELSE /\ thrown' = OpenOrdersError(openOrdersAccount)
          /\ pcC' = CatchOf(cmd, pcC, branch)
  /\ UNCHANGED <<cmd, argv, chain, branch, acctIdx, openOrdersAccount, rpcLog,
                 built, submitted, exitCode, logC>>
  /\ CmdFrame

\* ensureAssociatedTokenAccount: read the token account and, when it does
\* not exist, send the transaction that creates it
EnsureTokenAccount ==
  /\ pcC \in {"ensureBaseAta", "ensureQuoteAta"}
  /\ \/ /\ rpcLog' = Append(rpcLog, "getAccountInfo")
        /\ pcC' = After(cmd, pcC)
        /\ UNCHANGED <<built, submitted, thrown>>
     \/ /\ rpcLog' = rpcLog \o <<"getAccountInfo", "sendTransaction">>
        /\ built' = Append(built, "createAssociatedTokenAccount")
        /\ submitted' = Append(submitted,
             [ixs |-> <<"createAssociatedTokenAccount">>, custom |-> 0])
        /\ pcC' = After(cmd, pcC)
        /\ UNCHANGED thrown
     \/ /\ rpcLog' = Append(rpcLog, "getAccountInfo")
        /\ thrown' = PlainError(RpcMsg)
        /\ pcC' = CatchOf(cmd, pcC, branch)
        /\ UNCHANGED <<built, submitted>>
  /\ UNCHANGED <<cmd, argv, chain, branch, acctIdx, openOrdersAccount,
                 exitCode, logC>>
  /\ CmdFrame

\* await client.depositIx / settleFundsIx / placeOrderIx / cancel...Ix /
\* closeOpenOrdersAccountIx / closeOpenOrdersIndexerIx
BuildInstruction ==
  /\ pcC = "buildIx"
  /\ built' = Append(built, IxName(cmd, argv, branch))
  /\ pcC' = "fee"
  /\ UNCHANGED <<cmd, argv, chain, branch, acctIdx, openOrdersAccount, thrown,
                 rpcLog, submitted, exitCode, logC>>
  /\ CmdFrame

\* const priorityFee = await getDynamicPriorityFee(connection)
GetPriorityFee ==
  /\ pcC = "fee"
  /\ rpcLog' = Append(rpcLog, "getRecentPrioritizationFees")
  /\ pcC' = "send"
  /\ UNCHANGED <<cmd, argv, chain, branch, acctIdx, openOrdersAccount, thrown,
                 built, submitted, exitCode, logC>>
  /\ CmdFrame

\* closeOOA: what follows one account's closure
AfterClose(br, idx, n) ==
  IF br = "market" /\ idx < n THEN "buildIx" ELSE "return"

\* const signature = await sendWithRetry(provider, connection, [ix], fee)
SendWithRetry ==
  /\ pcC = "send"
  /\ rpcLog' = Append(rpcLog, "sendRawTransaction")
  /\ LET ixs == <<built[Len(built)]>>
         next == IF cmd = "closeOOA"
                 THEN AfterClose(branch, acctIdx, chain.accounts)
                 ELSE "return"
     IN \/ /\ submitted' = Append(submitted, [ixs |-> ixs, custom |-> 0])
           /\ pcC' = next
           /\ acctIdx' = IF next = "buildIx" THEN acctIdx + 1 ELSE acctIdx
           /\ UNCHANGED thrown
        \/ \E c \in ErrorCodes :
             /\ submitted' = Append(submitted, [ixs |-> ixs, custom |-> c])
             /\ thrown' = Rethrown(OpenBookError(c))
             /\ pcC' = CatchOf(cmd, pcC, branch)
             /\ UNCHANGED acctIdx
        \/ \E e \in {Rethrown(PlainError(RpcMsg)), PlainError(RetriesMsg)} :
             /\ submitted' = Append(submitted, [ixs |-> ixs, custom |-> 0])
             /\ thrown' = e
             /\ pcC' = CatchOf(cmd, pcC, branch)
             /\ UNCHANGED acctIdx
  /\ UNCHANGED <<cmd, argv, chain, branch, openOrdersAccount, built, exitCode,
                 logC>>
  /\ CmdFrame

\* createOOA: await client.createOpenOrders(owner, marketPubkey, argv.name)
CreateOpenOrders ==
  /\ pcC = "createOpenOrders"
  /\ rpcLog' = Append(rpcLog, "sendRawTransaction")
  /\ built' = Append(built, IxName(cmd, argv, branch))
  /\ \/ /\ submitted' = Append(submitted, [ixs |-> <<"createOpenOrders">>, custom |-> 0])
        /\ pcC' = "return"
        /\ UNCHANGED thrown
     \/ \E c \in ErrorCodes :
          /\ submitted' = Append(submitted, [ixs |-> <<"createOpenOrders">>, custom |-> c])
          /\ thrown' = OpenBookError(c)
          /\ pcC' = CatchOf(cmd, pcC, branch)
  /\ UNCHANGED <<cmd, argv, chain, branch, acctIdx, openOrdersAccount,
                 exitCode, logC>>
  /\ CmdFrame

\* catch (error) { logger.error(...); process.exit(1); }
HandlerCatch ==
  /\ pcC = "catch"
  /\ logC' = Append(logC, thrown.message)
  /\ exitCode' = 1
  /\ pcC' = "exited"
  /\ UNCHANGED <<cmd, argv, chain, branch, acctIdx, openOrdersAccount, thrown,
                 rpcLog, built, submitted>>
  /\ CmdFrame

\* the handler's promise rejects (or the argument check throws): the command
\* line parser reports the failure and the process exits non-zero
HandlerRejected ==
  /\ pcC = "rejected"
  /\ exitCode' = 1
  /\ pcC' = "exited"
  /\ UNCHANGED <<cmd, argv, chain, branch, acctIdx, openOrdersAccount, thrown,
                 rpcLog, built, submitted, logC>>
  /\ CmdFrame

\* the handler returns
HandlerReturn ==
  /\ pcC = "return"
  /\ exitCode' = 0
  /\ pcC' = "exited"
  /\ UNCHANGED <<cmd, argv, chain, branch, acctIdx, openOrdersAccount, thrown,
                 rpcLog, built, submitted, logC>>
  /\ CmdFrame

\* closeOOA: if (argv.openOrders) {...return} if (argv.market) {...return}
\* if (argv.closeIndexer) {...}, with the branch's loadPublicKey
CloseDispatch ==
  /\ pcC = "dispatch"
  /\ LET br == IF argv.openOrders # "absent" THEN "openOrders"
               ELSE IF argv.market # "absent" THEN "market"
               ELSE IF argv.closeIndexer THEN "indexer"
               ELSE "none"
         key == IF br = "openOrders" THEN argv.openOrders
                ELSE IF br = "market" THEN argv.market ELSE "ok"
     IN /\ branch' = br
        /\ IF key = "malformed"
           THEN /\ thrown' = PlainError("Invalid public key")
                /\ pcC' = CatchOf(cmd, pcC, br)
           ELSE /\ pcC' = CASE br = "market" -> "closeFind"
                            [] br = "none" -> "return"
                            [] OTHER -> "buildIx"
                /\ UNCHANGED thrown
  /\ UNCHANGED <<cmd, argv, chain, acctIdx, openOrdersAccount, rpcLog, built,
                 submitted, exitCode, logC>>
  /\ CmdFrame

\* const openOrdersAccounts = await client.findOpenOrdersForMarket(...)
FindOpenOrdersForMarket ==
  /\ pcC = "closeFind"
  /\ rpcLog' = Append(rpcLog, "findOpenOrdersForMarket")
  /\ \/ /\ pcC' = IF chain.accounts = 0 THEN "return" ELSE "buildIx"
        /\ acctIdx' = IF chain.accounts = 0 THEN 0 ELSE 1
        /\ UNCHANGED thrown
     \/ /\ thrown' = PlainError(RpcMsg)
        /\ pcC' = "closeOuterCatch"
        /\ UNCHANGED acctIdx
  /\ UNCHANGED <<cmd, argv, chain, branch, openOrdersAccount, built,
                 submitted, exitCode, logC>>
  /\ CmdFrame

\* the catch inside the loop over the market's accounts: log, translate, and
\* go on with the next account
CloseLoopCatch ==
  /\ pcC = "closeLoopCatch"
  /\ logC' = logC \o <<"Failed to close OpenOrders account: " \o thrown.message>>
               \o handleOpenBookError(thrown)
  /\ pcC' = AfterClose(branch, acctIdx, chain.accounts)
  /\ acctIdx' = IF acctIdx < chain.accounts THEN acctIdx + 1 ELSE acctIdx
  /\ UNCHANGED <<cmd, argv, chain, branch, openOrdersAccount, thrown, rpcLog,
                 built, submitted, exitCode>>
  /\ CmdFrame

\* the catch of the close-indexer branch: log, translate, rethrow
CloseIndexerCatch ==
  /\ pcC = "closeIndexerCatch"
  /\ logC' = logC \o <<"Failed to close OpenOrders indexer: " \o thrown.message>>
               \o handleOpenBookError(thrown)
  /\ thrown' = PlainError("Failed to close OpenOrders indexer: " \o thrown.message)
  /\ pcC' = "closeOuterCatch"
  /\ UNCHANGED <<cmd, argv, chain, branch, acctIdx, openOrdersAccount, rpcLog,
                 built, submitted, exitCode>>
  /\ CmdFrame

\* the handler's outer catch: log, translate, rethrow
CloseOuterCatch ==
  /\ pcC = "closeOuterCatch"
  /\ logC' = logC \o <<"Unexpected error occurred: " \o thrown.message>>
               \o handleOpenBookError(thrown)
  /\ thrown' = PlainError("Unexpected error: " \o thrown.message)
  /\ pcC' = "rejected"
  /\ UNCHANGED <<cmd, argv, chain, branch, acctIdx, openOrdersAccount, rpcLog,
                 built, submitted, exitCode>>
  /\ CmdFrame

NextCmd ==
  \/ YargsCheck
  \/ LoadKeypair
  \/ LoadPublicKey
  \/ TestConnection
  \/ FetchMarket
  \/ FetchOpenOrders
  \/ ValidateOpenOrders
  \/ EnsureTokenAccount
  \/ BuildInstruction
  \/ GetPriorityFee
  \/ SendWithRetry
  \/ CreateOpenOrders
  \/ HandlerCatch
  \/ HandlerRejected
  \/ HandlerReturn
  \/ CloseDispatch
  \/ FindOpenOrdersForMarket
  \/ CloseLoopCatch
  \/ CloseIndexerCatch
  \/ CloseOuterCatch

SpecCmd == InitCmd /\ [][NextCmd]_vars

\* ------------------------------------------------------ marketData monitor
InitMonitor ==
  /\ SendIdle /\ FeeIdle /\ MktIdle /\ CmdIdle /\ DepIdle
  /\ pcMon = "load"
  /\ monArgv \in [bestbidask : BOOLEAN, book : BOOLEAN]
  /\ timers = {} /\ inflight = NoTicks /\ nTicks = 0 /\ nTickFail = 0
  /\ logMon = <<>> /\ stderrMon = <<>> /\ procMon = "running"

\* the intervals the handler sets for the given flags
TimersFor(args) ==
  {t \in {"bestbidask", "book"} : args[t]}

\* const market = await Market.load(client, marketPubkey), then the two
\* setInterval calls; a rejection is caught and logged by the handler
MonitorLoadMarket ==
  /\ pcMon = "load" /\ procMon = "running"
  /\ \/ /\ timers' = TimersFor(monArgv)
        /\ procMon' = IF TimersFor(monArgv) = {} THEN "ended" ELSE "running"
        /\ UNCHANGED logMon
     \/ /\ logMon' = Append(logMon, "Error fetching market data: " \o RpcMsg)
        /\ procMon' = "ended"
        /\ UNCHANGED timers
  /\ pcMon' = "returned"
  /\ UNCHANGED <<monArgv, inflight, nTicks, nTickFail, stderrMon>>
  /\ MonFrame

\* an interval elapses: its callback starts and awaits market.loadOrderBook()
TimerFires_AfterPrevious ==
  /\ procMon = "running" /\ nTicks < MaxTicks
  /\ \E t \in timers :
       /\ \A u \in timers : inflight[u] = 0
       /\ inflight' = [inflight EXCEPT ![t] = @ + 1]
  /\ nTicks' = nTicks + 1
  /\ UNCHANGED <<pcMon, monArgv, timers, nTickFail, logMon, stderrMon, procMon>>
  /\ MonFrame
TimerFires ==
  /\ procMon = "running" /\ nTicks < MaxTicks
  /\ \E t \in timers :
       inflight' = [inflight EXCEPT ![t] = @ + 1]
  /\ nTicks' = nTicks + 1
  /\ UNCHANGED <<pcMon, monArgv, timers, nTickFail, logMon, stderrMon, procMon>>
  /\ MonFrame

\* loadOrderBook is fulfilled: the callback prints and ends
TickCompletes ==
  /\ procMon = "running"
  /\ \E t \in timers :
       /\ inflight[t] > 0
       /\ inflight' = [inflight EXCEPT ![t] = @ - 1]
  /\ UNCHANGED <<pcMon, monArgv, timers, nTicks, nTickFail, logMon, stderrMon,
                 procMon>>
  /\ MonFrame

\* loadOrderBook rejects: the callback has no try/catch, so its promise is an
\* unhandled rejection; the runtime either ends the process with an error or
\* prints a warning and goes on, depending on its unhandled-rejections mode
TickFails ==
  /\ procMon = "running"
  /\ \E t \in timers :
       /\ inflight[t] > 0
       /\ \/ /\ procMon' = "crashed"
             /\ timers' = {}
             /\ inflight' = NoTicks
             /\ stderrMon' = Append(stderrMon, "Uncaught " \o RpcMsg)
          \/ /\ inflight' = [inflight EXCEPT ![t] = @ - 1]
             /\ stderrMon' = Append(stderrMon, "UnhandledPromiseRejectionWarning: " \o RpcMsg)
             /\ UNCHANGED <<procMon, timers>>
  /\ nTickFail' = nTickFail + 1
  /\ UNCHANGED <<pcMon, monArgv, nTicks, logMon>>
  /\ MonFrame

\* the user kills the process
KillMonitor ==
  /\ procMon = "running" /\ pcMon = "returned"
  /\ procMon' = "killed"
  /\ timers' = {}
  /\ inflight' = NoTicks
  /\ UNCHANGED <<pcMon, monArgv, nTicks, nTickFail, logMon, stderrMon>>
  /\ MonFrame

NextMonitor ==
  \/ MonitorLoadMarket
  \/ TimerFires
  \/ TickCompletes
  \/ TickFails
  \/ KillMonitor

SpecMonitor == InitMonitor /\ [][NextMonitor]_vars

\* ------------------------------------------- deposit.ts: sendWithRetry
\* const baseRetrySteps = [...] of commands/deposit.ts (eight steps)
depositRetrySteps ==
  <<250000, 500000, 1000000, 1500000, 2000000, 4000000, 8000000, 16000000>>

\* deposit.ts, "Determine next priority fee step"
DepositNextPriorityFee_Hold(a, fee) ==
  IF a - 1 < Len(depositRetrySteps) THEN depositRetrySteps[(a - 1) + 1] ELSE fee
DepositNextPriorityFee(a, fee) ==
  IF a - 1 < Len(depositRetrySteps) THEN depositRetrySteps[(a - 1) + 1]
  ELSE fee * 2

InitDeposit ==
  /\ SendIdle /\ FeeIdle /\ MktIdle /\ CmdIdle /\ MonIdle
  /\ pcD = "loop" /\ attemptD = 0
  /\ initialFeeD \in InitialFees
  /\ feeD = initialFeeD
  /\ sentD = <<>> /\ caughtD = "" /\ resultD = 0 /\ errorD = ""

\* let latestBlockhash = await connection.getLatestBlockhash('confirmed')
DepositGetLatestBlockhash ==
  /\ pcD = "loop" /\ attemptD < DEPOSIT_MAX_RETRIES
  /\ \/ pcD' = "send" /\ UNCHANGED caughtD
     \/ pcD' = "catch" /\ caughtD' = RpcMsg
  /\ UNCHANGED <<attemptD, feeD, initialFeeD, sentD, resultD, errorD>>
  /\ DepFrame

\* loop condition false: throw new Error('Transaction failed after multiple retries.')
DepositExitLoop ==
  /\ pcD = "loop" /\ ~(attemptD < DEPOSIT_MAX_RETRIES)
  /\ pcD' = "failed"
  /\ errorD' = RetriesMsg
  /\ UNCHANGED <<attemptD, feeD, initialFeeD, sentD, caughtD, resultD>>
  /\ DepFrame

\* const signature = await sendTransaction(provider, instructions, [], {...}):
\* the SDK broadcasts with the current fee and waits for 'processed'
DepositSendTransaction ==
  /\ pcD = "send"
  /\ \/ /\ sentD' = Append(sentD, feeD)
        /\ \/ pcD' = "confirm" /\ UNCHANGED caughtD
           \/ \E msg \in {ExpiredMsg, OnChainMsg, RpcMsg} :
                pcD' = "catch" /\ caughtD' = msg
     \/ \* sendRawTransaction rejects: nothing was broadcast
        /\ pcD' = "catch" /\ caughtD' = RpcMsg
        /\ UNCHANGED sentD
  /\ UNCHANGED <<attemptD, feeD, initialFeeD, resultD, errorD>>
  /\ DepFrame

\* await connection.confirmTransaction({...}, 'confirmed'); return signature
DepositConfirmTransaction ==
  /\ pcD = "confirm"
  /\ \/ /\ pcD' = "returned"
        /\ resultD' = Len(sentD)
        /\ UNCHANGED caughtD
     \/ \E msg \in {ExpiredMsg, RpcMsg} :
          /\ pcD' = "catch" /\ caughtD' = msg
          /\ UNCHANGED resultD
  /\ UNCHANGED <<attemptD, feeD, initialFeeD, sentD, errorD>>
  /\ DepFrame

\* catch (error): expiry test, attempt++, next fee; otherwise rethrow
DepositCatch ==
  /\ pcD = "catch"
  /\ IF IsExpiredError(caughtD)
     THEN /\ attemptD' = attemptD + 1
          /\ feeD' = DepositNextPriorityFee(attemptD + 1, feeD)
          /\ pcD' = "loop"
          /\ UNCHANGED errorD
     ELSE /\ pcD' = "failed"
          /\ errorD' = "Transaction failed: " \o caughtD
          /\ UNCHANGED <<attemptD, feeD>>
  /\ UNCHANGED <<initialFeeD, sentD, caughtD, resultD>>
  /\ DepFrame

NextDeposit ==
  \/ DepositGetLatestBlockhash
  \/ DepositExitLoop
  \/ DepositSendTransaction
  \/ DepositConfirmTransaction
  \/ DepositCatch

SpecDeposit == InitDeposit /\ [][NextDeposit]_vars

\* ------------------------------------------------------------------ claims

\* C1: within one call of sendWithRetry the fee of each submission is greater
\* than or equal to the fee of the previous submission.
C1_FeesNeverDecrease ==
  \A k \in 2..Len(sent) : sent[k].fee >= sent[k - 1].fee

\* C2: sendWithRetry never submits a transaction while an earlier transaction
\* of the call is still unexpired and unconfirmed, and at most one transaction
\* of the call is included by the network.
C2_NoDuplicateEffects ==
  [][ /\ (sent' # sent =>
            \A s \in 1..Len(net) : net[s] \notin {"pending", "processed"})
      /\ Cardinality(Landed') <= 1 ]_vars

\* C3: whatever outcomes the network produces, one call of sendWithRetry
\* submits at most MAX_RETRIES (10) transactions.
C3_AtMostMaxRetriesSubmissions ==
  Len(sent) <= MAX_RETRIES

\* C4: sendWithRetry returns a signature only if a status query of this call
\* reported that same signature as confirmed or finalized.
C4_SuccessOnlyAfterConfirmedObservation ==
  pc = "returned" => (result # 0 /\ result \in confirmedSeen)

C4_Witness ==
  pc = "returned" /\ result # 0 /\ nExpired > 0 /\ net[result] = "confirmed"

\* C5: when an attempt fails with an expiry error, the transaction of that
\* attempt is the one whose status is re-checked before the fee is escalated.
C5_ExpiredAttemptRechecked ==
  /\ (pc = "recheck" => signature = txid)
  /\ (pc = "escalate" => rechecked = txid)

C7_NonExpiryErrorIsFatal ==
  [][ /\ (pc = "catch" /\ caught # ExpiredMsg => pc' \in {"catch", "failed"})
      /\ (pc = "failed" => pc' = "failed" /\ error' = error)
      /\ ((pc = "catch" /\ caught # ExpiredMsg) \/ pc = "failed" =>
            UNCHANGED <<prioritizationFee, attempt, bhLog, sent, nStatus>>) ]_vars

C7_Witness ==
  /\ pc = "failed" /\ error = "Transaction failed: " \o OnChainMsg
  /\ nExpired > 0 /\ prioritizationFee = baseRetrySteps[nExpired]

\* C8: the fee used after the j-th expiry (j = 1..9) is the j-th value of
\* 250k, 500k, 1M, 1.5M, 2M, 4M, 8M, 16M, 32M, after the tenth expiry it is
\* twice the previous fee, and with initial fee 10,000, three expiries and a
\* confirmed fourth attempt the fees are 10,000, 250,000, 500,000, 1,000,000
\* and the signature of the fourth attempt is returned.
C8_FeeSchedule ==
  LET sched == <<250000, 500000, 1000000, 1500000, 2000000, 4000000,
                 8000000, 16000000, 32000000>>
      expected(j) == IF j = 0 THEN initialFee
                     ELSE IF j <= 9 THEN sched[j] ELSE 2 * sched[9]
  IN /\ (pc \in {"loop", "send", "confirm", "poll"} =>
           prioritizationFee = expected(nExpired))
     /\ \A k \in 1..Len(sent) : sent[k].fee = expected(sent[k].expiredBefore)
     /\ (/\ initialFee = 10000 /\ pc = "returned" /\ Len(sent) = 4
         /\ nExpired = 3 /\ nPending = 0
         => /\ [k \in 1..4 |-> sent[k].fee] = <<10000, 250000, 500000, 1000000>>
            /\ result = 4)

C8_Witness ==
  /\ initialFee = 10000 /\ pc = "returned" /\ Len(sent) = 4
  /\ nExpired = 3 /\ nPending = 0 /\ result = 4

\* C9: the k-th submission uses the blockhash answered by the k-th
\* getLatestBlockhash call (the one made in its own attempt), and no two
\* submissions use the same blockhash.
C9_FreshBlockhashPerSubmission ==
  \A k \in 1..Len(sent) :
    /\ sent[k].fetchNo = k
    /\ k <= Len(bhLog)
    /\ sent[k].blockhash = bhLog[k]
    /\ \A j \in 1..(k - 1) : sent[j].blockhash # sent[k].blockhash

C9_Witness ==
  pc = "confirm" /\ Len(sent) = 3 /\ nPending = 1 /\ nExpired = 1

\* C10: getDynamicPriorityFee returns exactly the base fee when the sample
\* list is empty or all zero, otherwise the larger of the base fee and the
\* floored mean of the non-zero samples; never less than the base fee.
C10_EstimatorValue ==
  (pcF = "done" /\ rpcKind # "error") =>
    LET nz == {k \in 1..Len(rpcFees) : rpcFees[k] # 0}
        n == Cardinality(nz)
        RECURSIVE sum(_)
        sum(S) == IF S = {} THEN 0
                  ELSE LET k == CHOOSE x \in S : TRUE IN rpcFees[k] + sum(S \ {k})
        total == sum(nz)
    IN /\ feeResult >= BASE_PRIORITY_FEE
       /\ (n = 0 => feeResult = BASE_PRIORITY_FEE)
       /\ (n > 0 =>
             \/ /\ feeResult = BASE_PRIORITY_FEE
                /\ total < (BASE_PRIORITY_FEE + 1) * n
             \/ /\ feeResult > BASE_PRIORITY_FEE
                /\ feeResult * n <= total
                /\ total < (feeResult + 1) * n)

C10_Witness ==
  /\ pcF = "done" /\ rpcKind = "ok" /\ feeResult > BASE_PRIORITY_FEE
  /\ \E k \in 1..Len(rpcFees) : rpcFees[k] = 0
  /\ \E k \in 1..Len(rpcFees) : rpcFees[k] = 100001

\* C11: when the fetch of the recent fee samples fails, getDynamicPriorityFee
\* returns the base fee without raising and without repeating the fetch: the
\* call issues exactly one getRecentPrioritizationFees request.
C11_FetchFailureFallsBack ==
  rpcKind = "error" =>
    /\ nFetch <= 1
    /\ pcF \in {"start", "caught", "done"}
    /\ (pcF = "done" => nFetch = 1 /\ feeResult = BASE_PRIORITY_FEE)

C11_Witness ==
  pcF = "done" /\ rpcKind = "error" /\ nFetch = 1 /\ feeResult = BASE_PRIORITY_FEE

\* C12 (as stated): with N log entries and no RPC error findAllMarkets issues
\* exactly P = ceil(N / page size) getSignaturesForAddress requests, for every
\* N including 0 and exact multiples of the page size.
C12_PagesEqualCeil ==
  (pcM \in {"batch", "vault", "done"} /\ ~pageFailed) =>
    nPages = (nSigs + MAX_SIGNATURES_PER_REQUEST - 1) \div MAX_SIGNATURES_PER_REQUEST

\* C12 (amended): with N log entries and no RPC error findAllMarkets issues
\* exactly floor(N / page size) + 1 getSignaturesForAddress requests: P when N
\* is not a multiple of the page size, P + 1 when it is (N = 0 included).
C12_PagesFloorPlusOne ==
  (pcM \in {"batch", "vault", "done"} /\ ~pageFailed) =>
    nPages = nSigs \div MAX_SIGNATURES_PER_REQUEST + 1

C12_Witness ==
  /\ returned /\ ~pageFailed
  /\ nSigs = MAX_SIGNATURES_PER_REQUEST /\ signatures = nSigs /\ nPages = 2

\* C13: when every fetch and every decode succeeds, the returned list holds
\* exactly one record per market-creation event of the log and no record that
\* comes from an event of another kind.
C13_OnlyCreationEvents ==
  LET creations(kind) ==
        IF kind \in {"create", "createBare"} THEN 1
        ELSE IF kind = "two" THEN 2 ELSE 0
      RECURSIVE count(_)
      count(j) == IF j = 0 THEN 0 ELSE creations(evKinds[j]) + count(j - 1)
  IN (/\ returned /\ ~pageFailed /\ skipped = {}
      /\ \A j \in 1..Len(evKinds) :
           evKinds[j] \notin {"garbled", "garbledThenCreate"}) =>
       /\ Len(marketsAll) = count(Len(evKinds))
       /\ \A r \in 1..Len(marketsAll) : marketsAll[r].market # NA

\* C14: a batch whose three getTransactions attempts all fail is skipped
\* without an exception: the returned list is the list of the records of all
\* other batches, in log order, so it lacks exactly the skipped batch's events
\* and the batches after it are still processed.
C14_SkippedBatchOnly ==
  LET key(r) == <<r.timestamp, r.market>>
      keys(recs) == [x \in 1..Len(recs) |-> key(recs[x])]
      batchOf(k) == ((k - 1) \div BATCH_TX_SIZE) * BATCH_TX_SIZE
      RECURSIVE expected(_, _)
      expected(j, upTo) ==
        IF j > Len(evKinds) THEN <<>>
        ELSE (IF EventPos(j) > upTo \/ batchOf(EventPos(j)) \in skipped
              THEN <<>>
              ELSE keys(ProcessTx(TxOfKind(evKinds[j], EventPos(j)))))
             \o expected(j + 1, upTo)
  IN /\ pcM = "batch" /\ attemptM = 0 =>
          keys(marketsAll) = expected(1, IF iM < signatures THEN iM ELSE signatures)
     /\ pcM \in {"vault", "done"} => keys(marketsAll) = expected(1, signatures)
     /\ \A b \in skipped : b < iM /\ nBatchFail >= MARKET_MAX_RETRIES

C14_Witness ==
  /\ returned /\ skipped = {0}
  /\ \E r \in 1..Len(marketsAll) : marketsAll[r].timestamp > BATCH_TX_SIZE

\* C15: a vault whose three getTokenAccountBalance attempts all fail gets the
\* balance 'Unavailable' instead of an exception, and findAllMarkets still
\* returns that record together with every other record.
C15_VaultFailureUnavailable ==
  /\ \A g \in gaveUp :
       /\ g[1] \in 1..Len(marketsAll)
       /\ IF g[2] = "base"
          THEN marketsAll[g[1]].baseVaultBalance = Unavailable
          ELSE marketsAll[g[1]].quoteVaultBalance = Unavailable
  /\ (pcM \in {"vault", "done"} /\ skipped = {}) =>
       LET RECURSIVE records(_)
           records(j) ==
             IF j = 0 THEN 0
             ELSE records(j - 1) +
                  (IF EventPos(j) > signatures THEN 0
                   ELSE Len(ProcessTx(TxOfKind(evKinds[j], EventPos(j)))))
       IN Len(marketsAll) = records(Len(evKinds))
  /\ (gaveUp # {} /\ mIdx > Len(marketsAll)) => pcM \in {"vault", "done"}

C15_Witness ==
  /\ returned /\ <<1, "base">> \in gaveUp /\ Len(marketsAll) >= 2
  /\ marketsAll[1].baseVaultBalance = Unavailable
  /\ marketsAll[2].baseVaultBalance = 7

C17_InputErrorBeforeNetwork ==
  (\/ argv.ownerKeypair = "unreadable"
   \/ argv.market = "malformed"
   \/ argv.openOrders = "malformed"
   \/ Truthy(argv.orderId) /\ Truthy(argv.clientOrderId)) =>
    /\ rpcLog = <<>>
    /\ pcC = "exited" => exitCode = 1

\* C18: when a transaction the closeOOA handler submitted through
\* sendWithRetry fails with the venue's custom error code c, the handler logs
\* the table message of c, and the transaction is submitted once only.
C18_CustomErrorTranslated ==
  (cmd = "closeOOA" /\ pcC = "exited") =>
    /\ \A k \in 1..Len(submitted) :
         submitted[k].custom # 0 =>
           \E n \in 1..Len(logC) :
             logC[n] = "OpenBook Error (" \o ToString(submitted[k].custom)
                         \o "): " \o getOpenBookErrorMessage(submitted[k].custom)
    /\ Len(submitted) <= (IF branch = "market" THEN chain.accounts ELSE 1)

\* C20: closeOOA with --closeIndexer and --market or --openOrders also closes
\* the indexer: after the account closures the close-indexer transaction is
\* submitted in the same invocation.
C20_CloseIndexerAfterAccounts ==
  (/\ cmd = "closeOOA" /\ argv.closeIndexer
   /\ argv.market # "absent" \/ argv.openOrders # "absent"
   /\ pcC = "exited" /\ exitCode = 0) =>
    /\ submitted # <<>>
    /\ submitted[Len(submitted)].ixs = <<"closeOpenOrdersIndexer">>

\* C19: in the marketData monitor a poll tick whose order-book load fails is
\* logged and does not end the polling loop: the process keeps running, with
\* its timers set, until it is killed.
C19_TickFailureIsolated ==
  nTickFail > 0 =>
    /\ Len(logMon) + Len(stderrMon) >= nTickFail
    /\ procMon \in {"running", "killed"}
    /\ procMon = "running" => timers = TimersFor(monArgv)

\* C21: one call of confirmTransactionWithPolling makes at most maxChecks (10)
\* status queries; the first query answered confirmed or finalized ends the
\* call with true (sendWithRetry then returns the signature), an answer of
\* processed or of no status does not, and the call ends with false only after
\* ten queries without such an answer.
C21_PollingBounded ==
  [][ /\ (nStatus' # nStatus =>
            /\ pc \in {"poll", "recheck"}
            /\ i < maxChecks
            /\ nStatus' = nStatus + 1
            /\ (signature \in confirmedSeen' <=>
                  (pc' = "returned" /\ result' = signature))
            /\ (pc' = pc => i' = i + 1 /\ result' = result))
      /\ (pc = "poll" /\ pc' = "loop" => i = maxChecks)
      /\ (pc = "recheck" /\ pc' = "escalate" => i = maxChecks) ]_vars

C21_Witness ==
  /\ pc = "loop" /\ nPending = 1 /\ i = maxChecks /\ nStatus = maxChecks
  /\ net[signature] = "processed"

\* C25: attempt increases (by one) exactly when an expiry error is caught; a
\* polling round that times out leaves attempt and the fee as they are and is
\* followed by a new iteration of the loop, which submits again.
C25_PendingConsumesNoBudget ==
  [][ /\ (attempt' # attempt =>
            pc = "catch" /\ caught = ExpiredMsg /\ attempt' = attempt + 1)
      /\ (pc = "catch" /\ caught = ExpiredMsg /\ pc' # pc =>
            attempt' = attempt + 1)
      /\ (nPending' # nPending =>
            /\ pc = "poll" /\ i = maxChecks
            /\ attempt' = attempt
            /\ prioritizationFee' = prioritizationFee
            /\ pc' = "loop" /\ attempt' < MAX_RETRIES) ]_vars

C25_Witness ==
  /\ nPending = 1 /\ Len(sent) = 2 /\ attempt = 0
  /\ sent[2].fee = sent[1].fee /\ sent[2].expiredBefore = 0

\* C28: every transaction submitted by one call of sendWithRetry carries the
\* caller's instruction list, unchanged, after one compute-budget instruction
\* for the current fee; the caller's list is never modified, so submissions
\* differ only in blockhash and priority fee.
C28_InstructionsUnchanged ==
  /\ instructions = <<[op |-> "X"]>>
  /\ \A k \in 1..Len(sent) :
       /\ Len(sent[k].ixs) = Len(instructions) + 1
       /\ sent[k].ixs[1].op = "setComputeUnitPrice"
       /\ sent[k].ixs[1].microLamports = sent[k].fee
       /\ Tail(sent[k].ixs) = instructions

C28_Witness ==
  /\ Len(sent) >= 3
  /\ sent[3].fee # sent[1].fee /\ sent[3].blockhash # sent[1].blockhash
  /\ Tail(sent[3].ixs) = Tail(sent[1].ixs)

\* C29: every fee used for a submission is the initial fee or one of the nine
\* schedule values; a fee outside these (the doubled fee) exists only after the
\* tenth expiry, when the loop has ended, and no submission uses it.
C29_DoubledFeeNeverUsed ==
  LET allowed == {initialFee} \cup {baseRetrySteps[j] : j \in 1..Len(baseRetrySteps)}
  IN /\ \A k \in 1..Len(sent) : sent[k].fee \in allowed
     /\ (prioritizationFee \notin allowed =>
           /\ attempt = MAX_RETRIES /\ nExpired = MAX_RETRIES
           /\ prioritizationFee = 2 * baseRetrySteps[Len(baseRetrySteps)]
           /\ pc \in {"loop", "failed"})

C29_Witness ==
  /\ pc = "failed" /\ error = RetriesMsg
  /\ prioritizationFee = 2 * baseRetrySteps[Len(baseRetrySteps)]
  /\ \A k \in 1..Len(sent) : sent[k].fee # prioritizationFee

\* C22: signature pagination stops at the first page that is empty, shorter
\* than the page size, or fails; a failed page fetch raises no exception and
\* every signature of the earlier pages is kept and processed.
C22_FailedPageKeepsEarlier ==
  [][ LET recs(kind) ==
            IF kind \in {"create", "createBare", "other", "garbledThenCreate"}
            THEN 1
            ELSE IF kind = "two" THEN 2 ELSE 0
          at(k) == Cardinality({r \in 1..Len(marketsAll') :
                                  marketsAll'[r].timestamp = k})
      IN /\ (pcM = "sigs" =>
               /\ nPages' = nPages + 1
               /\ pcM' \in {"sigs", "batch"}
               /\ (pcM' = "sigs" <=>
                     /\ ~pageFailed'
                     /\ signatures' = signatures + MAX_SIGNATURES_PER_REQUEST)
               /\ (pageFailed' => signatures' = signatures))
         /\ (pageFailed' =>
               /\ signatures' = (nPages' - 1) * MAX_SIGNATURES_PER_REQUEST
               /\ signatures' <= nSigs'
               /\ pcM' \in {"batch", "vault", "done"})
         /\ (pageFailed' /\ pcM' \in {"vault", "done"} /\ skipped' = {} =>
               /\ iM' >= signatures'
               /\ \A j \in 1..Len(evKinds') :
                    EventPos(j) <= signatures' =>
                      at(EventPos(j)) = recs(evKinds'[j])) ]_vars

C22_Witness ==
  /\ returned /\ pageFailed /\ nSigs > MAX_SIGNATURES_PER_REQUEST
  /\ signatures = MAX_SIGNATURES_PER_REQUEST /\ nPages = 2
  /\ Len(marketsAll) > 0

\* C23: an inner instruction yields a record only if its first account
\* resolves to the event authority and its program index to the venue program;
\* an entry whose decoding throws yields one warning and no record, and the
\* remaining entries of the same transaction and of later transactions are
\* still processed.
C23_DecodeFailureSkipsEntry ==
  LET recs(kind) ==
        IF kind \in {"create", "createBare", "other", "garbledThenCreate"} THEN 1
        ELSE IF kind = "two" THEN 2 ELSE 0
      warns(kind) == IF kind \in {"garbled", "garbledThenCreate"} THEN 1 ELSE 0
      at(k) == Cardinality({r \in 1..Len(marketsAll) : marketsAll[r].timestamp = k})
      warnedAt(k) == Cardinality({w \in 1..Len(warned) : warned[w] = k})
      done(j) == /\ EventPos(j) <= signatures
                 /\ ((EventPos(j) - 1) \div BATCH_TX_SIZE) * BATCH_TX_SIZE \notin skipped
      RECURSIVE sum(_, _)
      sum(f, j) == IF j = 0 THEN 0
                   ELSE (IF done(j) THEN f[evKinds[j]] ELSE 0) + sum(f, j - 1)
  IN pcM \in {"vault", "done"} =>
       /\ \A j \in 1..Len(evKinds) :
            done(j) => /\ at(EventPos(j)) = recs(evKinds[j])
                       /\ warnedAt(EventPos(j)) = warns(evKinds[j])
       /\ Len(marketsAll) = sum([kd \in TxKinds |-> recs(kd)], Len(evKinds))
       /\ Len(warned) = sum([kd \in TxKinds |-> warns(kd)], Len(evKinds))

C23_Witness ==
  /\ returned /\ evKinds = <<"garbledThenCreate", "create">> /\ skipped = {}
  /\ warned = <<EventPos(1)>> /\ Len(marketsAll) = 2
  /\ marketsAll[1].timestamp = EventPos(1) /\ marketsAll[2].timestamp = EventPos(2)

\* C27: a fulfilled balance request ends getVaultBalance at once, without a
\* retry: a non-zero amount is stored as that number and a zero amount as
\* 'Unavailable', and the vault loop moves to the next vault.
C27_ZeroBalanceUnavailable ==
  [][ fetched' # fetched =>
        LET v == fetched'[Len(fetched')]
            stored == IF side = "base" THEN marketsAll'[mIdx].baseVaultBalance
                      ELSE marketsAll'[mIdx].quoteVaultBalance
        IN /\ fetched' = Append(fetched, v)
           /\ stored = (IF v = 0 THEN Unavailable ELSE v)
           /\ <<mIdx', side'>> # <<mIdx, side>>
           /\ attempts' = 0
           /\ UNCHANGED <<nVaultFail, gaveUp>> ]_vars

C27_Witness ==
  /\ returned /\ gaveUp = {} /\ nVaultFail = 0 /\ fetched = <<0, 7>>
  /\ marketsAll[1].baseVaultBalance = Unavailable
  /\ marketsAll[1].quoteVaultBalance = 7

\* C24: a cancel-order invocation builds one cancel instruction and submits
\* that one only: by order id if --orderId is given, else by client order id
\* if --clientOrderId is given, else cancel-all with the given limit (12 when
\* none is given) and the given side or none; --side and --limit have no
\* effect when an id is given.
C24_CancelPrecedence ==
  (cmd = "cancelOrder" /\ built # <<>>) =>
    /\ Len(built) = 1
    /\ built[1] =
         (IF argv.orderId # "absent" THEN "cancelOrderById"
          ELSE IF argv.clientOrderId # "absent" THEN "cancelOrderByClientId"
          ELSE CancelAllOrdersIx(IF argv.limit = Null THEN 12 ELSE argv.limit,
                                 IF argv.side = "absent" THEN "null" ELSE argv.side))
    /\ Len(submitted) <= 1
    /\ \A k \in 1..Len(submitted) : submitted[k].ixs = built

\* C26: while the monitor runs, each timer starts a new tick at every interval
\* whether or not earlier ticks have completed: a tick can always start, so
\* several ticks of one timer, and ticks of both timers, are in flight at once
\* on the same market object.
C26_TicksOverlap ==
  /\ (procMon = "running" /\ timers # {} /\ nTicks < MaxTicks) =>
       ENABLED TimerFires
  /\ \A t \in DOMAIN inflight : inflight[t] > 0 => t \in timers

C26_Witness ==
  /\ procMon = "running" /\ timers = {"bestbidask", "book"}
  /\ inflight["book"] >= 2 /\ inflight["bestbidask"] >= 1

\* C30: after any number n <= 10 of consecutive expiries, the fee held by the
\* deposit command's own sendWithRetry (eight steps, then doubling) equals the
\* fee the shared sendWithRetry (nine steps, then doubling) holds after n
\* expiries from the same initial fee, so every submission carries the same fee.
C30_DepositFeesMatchShared ==
  LET RECURSIVE SharedFeeAfter(_)
      SharedFeeAfter(n) ==
        IF n = 0 THEN initialFeeD
        ELSE NextPriorityFee(n, SharedFeeAfter(n - 1))
  IN /\ attemptD <= DEPOSIT_MAX_RETRIES
     /\ feeD = SharedFeeAfter(attemptD)
     /\ \A k \in 1..Len(sentD) : sentD[k] = SharedFeeAfter(k - 1)

C30_Witness ==
  /\ pcD = "failed" /\ errorD = RetriesMsg /\ attemptD = DEPOSIT_MAX_RETRIES
  /\ Len(sentD) = DEPOSIT_MAX_RETRIES
  /\ sentD[10] = 2 * depositRetrySteps[Len(depositRetrySteps)]
  /\ sentD[10] = baseRetrySteps[Len(baseRetrySteps)]
  /\ feeD = 2 * sentD[10]

====
